---- MODULE Spec2Model ----
(***************************************************************************)
(* A model of the compressed log chunk of pkg/chunkenc/memchunk.go: the    *)
(* ordered head block, the cut protocol, Close/reorder, the composed       *)
(* iterator, Rebound, the wire format written by writeTo and read back by  *)
(* newByteChunk, and the SpaceFor admission test.                          *)
(*                                                                         *)
(* Bytes are integers 0..255, byte strings are sequences of them.          *)
(* Timestamps are int64 nanoseconds; the model draws them from a small     *)
(* range that contains a negative value, zero and positive values.         *)
(***************************************************************************)
EXTENDS Integers, Sequences, FiniteSets, TLC

VARIABLES
    c,      \* the MemChunk under test
    last,   \* the last operation: its name, arguments, error and result
    prev,   \* the MemChunk as it was before the last operation
    admit,  \* TRUE while every Append so far was made after SpaceFor said true
    appended, \* the number of Appends that returned nil
    rebuilt, \* TRUE once a Close has found the blocks out of order and rebuilt them
    inFlight, \* the iterator in flight: what it captured and what it has emitted
    ckpt    \* the checkpoint in progress: its position and what each writer holds

vars == <<c, last, prev, admit, appended, rebuilt, inFlight, ckpt>>

(***************************************************************************)
(* Bounds of the model.                                                    *)
(***************************************************************************)
MaxAppends == 3
MaxT == 2
MaxDeepAppends == 16
MaxOverfill == 6

(***************************************************************************)
(* Program constants.                                                      *)
(***************************************************************************)
chunkFormatV1 == 1
chunkFormatV2 == 2
chunkFormatV3 == 3
chunkFormatV4 == 4
DefaultChunkFormat == chunkFormatV3
blocksPerChunk == 10
defaultBlockSize == 262144
OrderedHeadBlockFmt == 3
UnorderedHeadBlockFmt == 4
UnorderedWithNonIndexedLabelsHeadBlockFmt == 5
DefaultHeadBlockFmt == UnorderedHeadBlockFmt
magicNumber == <<1, 46, 229, 106>>
EncNone == 0
EncGZIP == 1
Millisecond == 1000000

(***************************************************************************)
(* Small helpers on sequences.                                             *)
(***************************************************************************)
With(v, F(_)) == F(v)
    \* v is computed once and named inside F

RECURSIVE Concat(_)
Concat(ss) ==
    IF ss = <<>> THEN <<>> ELSE Head(ss) \o Concat(Tail(ss))

RECURSIVE SumLen(_)
SumLen(ss) ==
    IF ss = <<>> THEN 0 ELSE Len(Head(ss)) + SumLen(Tail(ss))

RECURSIVE Reverse(_)
Reverse(s) ==
    IF s = <<>> THEN <<>> ELSE Append(Reverse(Tail(s)), Head(s))

Slice(s, from, to) ==
    \* Go's s[from:to] with 0-based bounds, as a 1-based sequence
    IF to <= from THEN <<>> ELSE SubSeq(s, from + 1, to)

(***************************************************************************)
(* Codec primitives: encoding/binary varints and big-endian integers.      *)
(***************************************************************************)
RECURSIVE PutUvarint(_)
PutUvarint(x) ==
    IF x < 128 THEN <<x>> ELSE <<128 + (x % 128)>> \o PutUvarint(x \div 128)

PutVarint(x) ==
    \* zig-zag: ux = x << 1, complemented when x is negative
    PutUvarint(IF x < 0 THEN (0 - 2 * x) - 1 ELSE 2 * x)

RECURSIVE UvarintAt(_, _)
UvarintAt(b, i) ==
    \* binary.Uvarint on b[i:]: the value and its width in bytes;
    \* width 0 when the buffer ends inside the varint
    IF i >= Len(b) THEN [v |-> 0, n |-> 0]
    ELSE IF b[i + 1] < 128 THEN [v |-> b[i + 1], n |-> 1]
    ELSE With(UvarintAt(b, i + 1), LAMBDA r :
             IF r.n = 0 THEN [v |-> 0, n |-> 0]
             ELSE [v |-> (b[i + 1] - 128) + 128 * r.v, n |-> r.n + 1])

VarintAt(b, i) ==
    With(UvarintAt(b, i), LAMBDA r :
        [v |-> IF r.v % 2 = 1 THEN 0 - ((r.v + 1) \div 2) ELSE r.v \div 2,
         n |-> r.n])

RECURSIVE BEBytes(_, _)
BEBytes(x, width) ==
    IF width = 0 THEN <<>> ELSE BEBytes(x \div 256, width - 1) \o <<x % 256>>

PutBE64(x) == BEBytes(x, 8)

RECURSIVE BEValue(_)
BEValue(b) ==
    IF b = <<>> THEN 0 ELSE 256 * BEValue(SubSeq(b, 1, Len(b) - 1)) + b[Len(b)]

(***************************************************************************)
(* The block and meta checksum.  The program uses CRC32-Castagnoli; the    *)
(* model keeps what the chunk relies on: four bytes computed from the      *)
(* whole content that change whenever a single byte changes.               *)
(***************************************************************************)
RECURSIVE ChecksumSums(_, _, _)
ChecksumSums(b, s1, s2) ==
    IF b = <<>> THEN <<s1, s2>>
    ELSE ChecksumSums(Tail(b), (s1 + Head(b)) % 65521,
                      (s2 + s1 + Head(b)) % 65521)

crc32(b) ==
    LET s == ChecksumSums(b, 1, 0)
    IN  BEBytes(s[2], 2) \o BEBytes(s[1], 2)

(***************************************************************************)
(* The codecs, behind the writer/reader pools.  "none" stores the stream   *)
(* as it is; gzip is kept as a frame followed by the runs of the stream,   *)
(* each run as its length and its byte: the payload is longer than the     *)
(* stream for short inputs and shorter for repetitive ones.                *)
(***************************************************************************)
gzipFrame == <<31, 139>>

JoinRuns(a, b) ==
    \* the runs a followed by the runs b, the last run of a and the first of
    \* b made one when they are of the same byte and fit one length byte
    IF a # <<>> /\ b # <<>> /\ a[Len(a)] = b[2] /\ a[Len(a) - 1] + b[1] <= 255
    THEN SubSeq(a, 1, Len(a) - 2) \o <<a[Len(a) - 1] + b[1], b[2]>>
         \o SubSeq(b, 3, Len(b))
    ELSE a \o b

RECURSIVE Deflate(_)
Deflate(s) ==
    \* the runs of s, found by halves
    IF s = <<>> THEN <<>>
    ELSE IF Len(s) = 1 THEN <<1, s[1]>>
    ELSE JoinRuns(Deflate(SubSeq(s, 1, Len(s) \div 2)),
                  Deflate(SubSeq(s, Len(s) \div 2 + 1, Len(s))))

RECURSIVE Inflate(_)
Inflate(b) ==
    \* the runs of b expanded, by halves
    IF Len(b) < 2 THEN <<>>
    ELSE IF Len(b) < 4 THEN [i \in 1..b[1] |-> b[2]]
    ELSE Inflate(SubSeq(b, 1, 2 * (Len(b) \div 4)))
         \o Inflate(SubSeq(b, 2 * (Len(b) \div 4) + 1, Len(b)))

Compress(enc, s) ==
    IF enc = EncNone THEN s ELSE gzipFrame \o Deflate(s)

Decompress(enc, b) ==
    IF enc = EncNone THEN b ELSE Inflate(Slice(b, Len(gzipFrame), Len(b)))

(***************************************************************************)
(* Entries and the ordered head block (type headBlock).                    *)
(***************************************************************************)
Entry(ts, line) == [t |-> ts, s |-> line]

EmptyHead == [entries |-> <<>>, size |-> 0, mint |-> 0, maxt |-> 0]

hbIsEmpty(hb) == Len(hb.entries) = 0

hbReset(hb) ==
    [entries |-> <<>>, size |-> 0, mint |-> 0, maxt |-> 0]

hbAppendRejectsEqual(hb, ts, line) ==
    \* hbAppend with the order test off by one: an equal timestamp is refused
    IF ~hbIsEmpty(hb) /\ hb.maxt >= ts
    THEN [err |-> "ErrOutOfOrder", hb |-> hb]
    ELSE [err |-> "nil",
          hb  |-> [entries |-> Append(hb.entries, Entry(ts, line)),
                   mint    |-> IF hb.mint = 0 \/ hb.mint > ts THEN ts ELSE hb.mint,
                   maxt    |-> ts,
                   size    |-> hb.size + Len(line)]]

hbAppendAnyOrder(hb, ts, line) ==
    \* hbAppend without the order test
    [err |-> "nil",
     hb  |-> [entries |-> Append(hb.entries, Entry(ts, line)),
              mint    |-> IF hb.mint = 0 \/ hb.mint > ts THEN ts ELSE hb.mint,
              maxt    |-> ts,
              size    |-> hb.size + Len(line)]]

hbAppendCountsFirst(hb, ts, line) ==
    \* hbAppend adding the line to the size before the order test
    IF ~hbIsEmpty(hb) /\ hb.maxt > ts
    THEN [err |-> "ErrOutOfOrder", hb |-> [hb EXCEPT !.size = @ + Len(line)]]
    ELSE [err |-> "nil",
          hb  |-> [entries |-> Append(hb.entries, Entry(ts, line)),
                   mint    |-> IF hb.mint = 0 \/ hb.mint > ts THEN ts ELSE hb.mint,
                   maxt    |-> ts,
                   size    |-> hb.size + Len(line)]]

hbAppend(hb, ts, line) ==
    IF ~hbIsEmpty(hb) /\ hb.maxt > ts
    THEN [err |-> "ErrOutOfOrder", hb |-> hb]
    ELSE [err |-> "nil",
          hb  |-> [entries |-> Append(hb.entries, Entry(ts, line)),
                   mint    |-> IF hb.mint = 0 \/ hb.mint > ts THEN ts ELSE hb.mint,
                   maxt    |-> ts,
                   size    |-> hb.size + Len(line)]]

RECURSIVE EncodeSymbols(_)
EncodeSymbols(refs) ==
    IF refs = <<>> THEN <<>>
    ELSE PutUvarint(Head(refs)[1]) \o PutUvarint(Head(refs)[2]) \o EncodeSymbols(Tail(refs))

EncodeEntry(e) ==
    \* an entry of a head that keeps non-indexed labels carries its symbol
    \* references: the byte length of the pairs, their number, the pairs
    PutVarint(e.t) \o PutUvarint(Len(e.s)) \o e.s
    \o (IF "syms" \in DOMAIN e
        THEN PutUvarint(Len(EncodeSymbols(e.syms))) \o PutUvarint(Len(e.syms))
             \o EncodeSymbols(e.syms)
        ELSE <<>>)

RECURSIVE EncodeEntries(_)
EncodeEntries(es) ==
    \* the entries one after the other; the sequence is taken by halves to
    \* keep the nesting shallow for long heads
    IF es = <<>> THEN <<>>
    ELSE IF Len(es) = 1 THEN EncodeEntry(es[1])
    ELSE EncodeEntries(SubSeq(es, 1, Len(es) \div 2))
         \o EncodeEntries(SubSeq(es, Len(es) \div 2 + 1, Len(es)))

hbSerialise(hb, enc) == Compress(enc, EncodeEntries(hb.entries))

(***************************************************************************)
(* The unordered head block.  It accepts any timestamp, keeps the true     *)
(* bounds of what it holds, serialises its entries in the order they were  *)
(* appended and iterates them in timestamp order, entries of one           *)
(* timestamp in append order.                                              *)
(***************************************************************************)
MinOf(a, b) == IF a < b THEN a ELSE b

MaxOf(a, b) == IF a > b THEN a ELSE b

uhbAppend(hb, ts, line) ==
    [err |-> "nil",
     hb  |-> [entries |-> Append(hb.entries, Entry(ts, line)),
              mint    |-> IF hbIsEmpty(hb) THEN ts ELSE MinOf(hb.mint, ts),
              maxt    |-> IF hbIsEmpty(hb) THEN ts ELSE MaxOf(hb.maxt, ts),
              size    |-> hb.size + Len(line)]]

uhbAppendLabels(hb, ts, line, refs) ==
    \* the head of format UnorderedWithNonIndexedLabelsHeadBlockFmt keeps, with
    \* each entry, the symbol references of its labels
    [err |-> "nil",
     hb  |-> [entries |-> Append(hb.entries, [t |-> ts, s |-> line, syms |-> refs]),
              mint    |-> IF hbIsEmpty(hb) THEN ts ELSE MinOf(hb.mint, ts),
              maxt    |-> IF hbIsEmpty(hb) THEN ts ELSE MaxOf(hb.maxt, ts),
              size    |-> hb.size + Len(line)]]

uhbSerialise(hb, enc) == Compress(enc, EncodeEntries(hb.entries))

RECURSIVE InsertByTime(_, _)
InsertByTime(sorted, e) ==
    \* e goes after every entry whose timestamp is not larger: a stable sort
    IF sorted = <<>> THEN <<e>>
    ELSE IF Head(sorted).t <= e.t THEN <<Head(sorted)>> \o InsertByTime(Tail(sorted), e)
    ELSE <<e>> \o sorted

RECURSIVE SortByTime(_)
SortByTime(es) ==
    IF es = <<>> THEN <<>>
    ELSE InsertByTime(SortByTime(SubSeq(es, 1, Len(es) - 1)), es[Len(es)])

(***************************************************************************)
(* HeadBlockFmt.NewBlock and the HeadBlock interface: formats below the    *)
(* unordered one are served by the ordered head block.                     *)
(***************************************************************************)
IsOrderedFmt(f) == f < UnorderedHeadBlockFmt

NewBlock(f) == EmptyHead

HeadAppend(f, hb, ts, line) ==
    IF IsOrderedFmt(f) THEN hbAppend(hb, ts, line) ELSE uhbAppend(hb, ts, line)

HeadSerialise(f, hb, enc) ==
    IF IsOrderedFmt(f) THEN hbSerialise(hb, enc) ELSE uhbSerialise(hb, enc)

(***************************************************************************)
(* MemChunk.                                                               *)
(***************************************************************************)
newMemChunkWithFormat(format, enc, head, blockSize, targetSize) ==
    [blockSize      |-> blockSize,
     targetSize     |-> targetSize,
     blocks         |-> <<>>,
     cutBlockSize   |-> 0,
     head           |-> NewBlock(head),
     format         |-> format,
     encoding       |-> enc,
     headFmt        |-> head,
     compressedSize |-> 0,
     symbolizer |-> <<>>]

NewMemChunk(enc, head, blockSize, targetSize) ==
    newMemChunkWithFormat(DefaultChunkFormat, enc, head, blockSize, targetSize)

RECURSIVE SumEntries(_)
SumEntries(blocks) ==
    IF blocks = <<>> THEN 0 ELSE Head(blocks).numEntries + SumEntries(Tail(blocks))

Size(ch) == SumEntries(ch.blocks) + Len(ch.head.entries)

BlockCount(ch) == Len(ch.blocks)

SpaceForOneMore(ch, line) ==
    \* SpaceFor admitting while the block count is at most blocksPerChunk
    IF ch.targetSize > 0
    THEN (ch.cutBlockSize + (ch.head.size + Len(line))) < ch.targetSize
    ELSE Len(ch.blocks) <= blocksPerChunk

SpaceFor(ch, line) ==
    IF ch.targetSize > 0
    THEN (ch.cutBlockSize + (ch.head.size + Len(line))) < ch.targetSize
    ELSE Len(ch.blocks) < blocksPerChunk

CompressedSize(ch) ==
    IF ch.compressedSize # 0 THEN ch.compressedSize
    ELSE ch.head.size + ch.cutBlockSize

cutAlways(ch) ==
    \* cut without the test for an empty head
    With(HeadSerialise(ch.headFmt, ch.head, ch.encoding), LAMBDA b :
        [ch EXCEPT
           !.blocks = Append(@, [b                |-> b,
                                 numEntries       |-> Len(ch.head.entries),
                                 mint             |-> ch.head.mint,
                                 maxt             |-> ch.head.maxt,
                                 offset           |-> 0,
                                 uncompressedSize |-> ch.head.size]),
           !.cutBlockSize = @ + Len(b),
           !.head = hbReset(ch.head)])

cutKeepsLastSize(ch) ==
    \* cut recording only the length of the block it seals
    IF hbIsEmpty(ch.head) THEN ch
    ELSE With(HeadSerialise(ch.headFmt, ch.head, ch.encoding), LAMBDA b :
             [ch EXCEPT
                !.blocks = Append(@, [b                |-> b,
                                      numEntries       |-> Len(ch.head.entries),
                                      mint             |-> ch.head.mint,
                                      maxt             |-> ch.head.maxt,
                                      offset           |-> 0,
                                      uncompressedSize |-> ch.head.size]),
                !.cutBlockSize = Len(b),
                !.head = hbReset(ch.head)])

cut(ch) ==
    IF hbIsEmpty(ch.head) THEN ch
    ELSE With(HeadSerialise(ch.headFmt, ch.head, ch.encoding), LAMBDA b :
             [ch EXCEPT
                !.blocks = Append(@, [b                |-> b,
                                      numEntries       |-> Len(ch.head.entries),
                                      mint             |-> ch.head.mint,
                                      maxt             |-> ch.head.maxt,
                                      offset           |-> 0,
                                      uncompressedSize |-> ch.head.size]),
                !.cutBlockSize = @ + Len(b),
                !.head = hbReset(ch.head)])

ChunkAppendNoBlockCheck(ch, ts, line) ==
    \* ChunkAppend without the test against the last sealed block
    With(HeadAppend(ch.headFmt, ch.head, ts, line), LAMBDA r :
        IF r.err # "nil" THEN [err |-> r.err, c |-> [ch EXCEPT !.head = r.hb]]
        ELSE IF r.hb.size >= ch.blockSize
        THEN [err |-> "nil", c |-> cut([ch EXCEPT !.head = r.hb])]
        ELSE [err |-> "nil", c |-> [ch EXCEPT !.head = r.hb]])

ChunkAppendCutsLate(ch, ts, line) ==
    \* ChunkAppend cutting only once the head is beyond the block size
    IF /\ ch.headFmt < UnorderedHeadBlockFmt
       /\ hbIsEmpty(ch.head)
       /\ Len(ch.blocks) > 0
       /\ ch.blocks[Len(ch.blocks)].maxt > ts
    THEN [err |-> "ErrOutOfOrder", c |-> ch]
    ELSE With(HeadAppend(ch.headFmt, ch.head, ts, line), LAMBDA r :
             IF r.err # "nil" THEN [err |-> r.err, c |-> [ch EXCEPT !.head = r.hb]]
             ELSE IF r.hb.size > ch.blockSize
             THEN [err |-> "nil", c |-> cut([ch EXCEPT !.head = r.hb])]
             ELSE [err |-> "nil", c |-> [ch EXCEPT !.head = r.hb]])

ChunkAppend(ch, ts, line) ==
    IF /\ ch.headFmt < UnorderedHeadBlockFmt
       /\ hbIsEmpty(ch.head)
       /\ Len(ch.blocks) > 0
       /\ ch.blocks[Len(ch.blocks)].maxt > ts
    THEN [err |-> "ErrOutOfOrder", c |-> ch]
    ELSE With(HeadAppend(ch.headFmt, ch.head, ts, line), LAMBDA r :
             IF r.err # "nil" THEN [err |-> r.err, c |-> [ch EXCEPT !.head = r.hb]]
             ELSE IF r.hb.size >= ch.blockSize
             THEN [err |-> "nil", c |-> cut([ch EXCEPT !.head = r.hb])]
             ELSE [err |-> "nil", c |-> [ch EXCEPT !.head = r.hb]])

ChunkAppendLabels(ch, ts, line, refs) ==
    \* MemChunk.Append on a chunk of format v4 whose head keeps non-indexed
    \* labels, from the point where the labels are in the symbol table
    With(uhbAppendLabels(ch.head, ts, line, refs), LAMBDA r :
        IF r.hb.size >= ch.blockSize
        THEN [err |-> "nil", c |-> cut([ch EXCEPT !.head = r.hb])]
        ELSE [err |-> "nil", c |-> [ch EXCEPT !.head = r.hb]])

symAdd(syms, str) ==
    IF \E i \in 1..Len(syms) : syms[i] = str
    THEN [syms |-> syms, idx |-> (CHOOSE i \in 1..Len(syms) : syms[i] = str) - 1]
    ELSE [syms |-> Append(syms, str), idx |-> Len(syms)]

symbolizerAdd(syms, lbl) ==
    \* lbl is <<>> or one label <<name, value>>
    IF lbl = <<>> THEN [syms |-> syms, refs |-> <<>>]
    ELSE With(symAdd(syms, lbl[1]), LAMBDA n :
         With(symAdd(n.syms, lbl[2]), LAMBDA v :
             [syms |-> v.syms, refs |-> << <<n.idx, v.idx>> >>]))

ChunkAppendEntry(ch, ts, line, lbl) ==
    \* MemChunk.Append of an entry with its non-indexed labels (<<>> or one
    \* label): below v4 the labels are dropped before the head sees them, and
    \* the entries of every head are encoded without a symbols section
    IF ch.headFmt # UnorderedWithNonIndexedLabelsHeadBlockFmt \/ ch.format < chunkFormatV4
    THEN ChunkAppend(ch, ts, line)
    ELSE With(symbolizerAdd(ch.symbolizer, lbl), LAMBDA a :
             ChunkAppendLabels([ch EXCEPT !.symbolizer = a.syms], ts, line, a.refs))

RECURSIVE BoundsLoop(_, _, _)
BoundsLoop(blocks, from, to) ==
    IF blocks = <<>> THEN <<from, to>>
    ELSE LET b == Head(blocks)
         IN  BoundsLoop(Tail(blocks),
                        IF from = 0 \/ from > b.mint THEN b.mint ELSE from,
                        IF to < b.maxt THEN b.maxt ELSE to)

Bounds(ch) == BoundsLoop(ch.blocks, ch.head.mint, ch.head.maxt)

(***************************************************************************)
(* Caller-supplied processors.  A pipeline decides per entry whether it    *)
(* matches (it leaves the line as it is here); a Rebound filter returns    *)
(* true for the entries to drop.                                           *)
(***************************************************************************)
LineA == <<97>>

LineBB == <<98, 98>>

HasB(line) == \E i \in 1..Len(line) : line[i] = 98

Pipelines == {"noop", "dropB"}

PipelineMatches(p, e) == IF p = "noop" THEN TRUE ELSE ~HasB(e.s)

Filters == {"nil", "dropB"}

FilterDrops(f, e) == IF f = "nil" THEN FALSE ELSE HasB(e.s)

(***************************************************************************)
(* The streaming block iterator on a well-formed block: decompress, then   *)
(* read varint(t), uvarint(len), line until the stream ends.  A stream     *)
(* that ends inside an entry ends the iteration.                           *)
(***************************************************************************)
RECURSIVE moveNext(_, _)
moveNext(s, i) ==
    IF i >= Len(s) THEN <<>>
    ELSE With(VarintAt(s, i), LAMBDA ts :
         With(UvarintAt(s, i + ts.n), LAMBDA l :
         With(i + ts.n + l.n, LAMBDA at :
             IF ts.n = 0 \/ l.n = 0 \/ at + l.v > Len(s) THEN <<>>
             ELSE <<Entry(ts.v, Slice(s, at, at + l.v))>> \o moveNext(s, at + l.v))))

SymAt(syms, idx) == IF idx < Len(syms) THEN syms[idx + 1] ELSE <<>>

symbolizerLookup(syms, refs) ==
    \* the labels a sequence of <<name index, value index>> stands for
    [k \in 1..Len(refs) |-> <<SymAt(syms, refs[k][1]), SymAt(syms, refs[k][2])>>]

RECURSIVE SymbolPairsAt(_, _, _)
SymbolPairsAt(s, i, n) ==
    \* n pairs of uvarints from position i on
    IF n = 0 THEN [ok |-> TRUE, refs |-> <<>>, at |-> i]
    ELSE With(UvarintAt(s, i), LAMBDA name :
         With(UvarintAt(s, i + name.n), LAMBDA value :
             IF name.n = 0 \/ value.n = 0 THEN [ok |-> FALSE, refs |-> <<>>, at |-> i]
             ELSE With(SymbolPairsAt(s, i + name.n + value.n, n - 1), LAMBDA r :
                      [r EXCEPT !.refs = << <<name.v, value.v>> >> \o @])))

RECURSIVE moveNextSymbols(_, _, _)
moveNextSymbols(s, i, syms) ==
    \* moveNext on a well-formed stream of format v4: after the line come the
    \* byte length of the symbols section, the number of symbols, the pairs
    IF i >= Len(s) THEN <<>>
    ELSE With(VarintAt(s, i), LAMBDA ts :
         With(UvarintAt(s, i + ts.n), LAMBDA l :
         With(i + ts.n + l.n + l.v, LAMBDA after :
         With(UvarintAt(s, after), LAMBDA sectionLen :
         With(UvarintAt(s, after + sectionLen.n), LAMBDA nSymbols :
         With(SymbolPairsAt(s, after + sectionLen.n + nSymbols.n, nSymbols.v), LAMBDA p :
             IF ts.n = 0 \/ l.n = 0 \/ after > Len(s)
                \/ sectionLen.n = 0 \/ nSymbols.n = 0 \/ ~p.ok
             THEN <<>>
             ELSE << [t |-> ts.v, s |-> Slice(s, after - l.v, after),
                      lbls |-> symbolizerLookup(syms, p.refs)] >>
                  \o moveNextSymbols(s, p.at, syms)))))))

bufferedIterator(enc, b) == moveNext(Decompress(enc, b), 0)

newBufferedIterator(enc, b, format, symbolizer) ==
    IF format >= chunkFormatV4 THEN moveNextSymbols(Decompress(enc, b), 0, symbolizer)
    ELSE bufferedIterator(enc, b)

entryBufferedIterator(enc, b, pipeline, format, symbolizer) ==
    SelectSeq(newBufferedIterator(enc, b, format, symbolizer),
              LAMBDA e : PipelineMatches(pipeline, e))

encBlockIterator(enc, format, symbolizer, blk, pipeline) ==
    IF Len(blk.b) = 0 THEN <<>>
    ELSE entryBufferedIterator(enc, blk.b, pipeline, format, symbolizer)

(***************************************************************************)
(* Head iterators.                                                         *)
(***************************************************************************)
hbIterator(hb, direction, mint, maxt, pipeline) ==
    IF hbIsEmpty(hb) \/ (maxt < hb.mint \/ hb.maxt < mint) THEN <<>>
    ELSE LET order == IF direction = "FORWARD" THEN hb.entries ELSE Reverse(hb.entries)
         IN  SelectSeq(order, LAMBDA e : /\ ~(e.t < mint \/ e.t >= maxt)
                                         /\ PipelineMatches(pipeline, e))

uhbIterator(hb, direction, mint, maxt, pipeline) ==
    LET asc   == SortByTime(hb.entries)
        order == IF direction = "FORWARD" THEN asc ELSE Reverse(asc)
    IN  SelectSeq(order, LAMBDA e : /\ mint <= e.t /\ e.t < maxt
                                    /\ PipelineMatches(pipeline, e))

LookupEntries(es, syms) ==
    \* the head that keeps non-indexed labels hands out each entry with the
    \* labels its symbol references stand for
    [k \in 1..Len(es) |->
        IF "syms" \in DOMAIN es[k]
        THEN [t |-> es[k].t, s |-> es[k].s, lbls |-> symbolizerLookup(syms, es[k].syms)]
        ELSE es[k]]

HeadIterator(f, hb, direction, mint, maxt, pipeline) ==
    IF IsOrderedFmt(f) THEN hbIterator(hb, direction, mint, maxt, pipeline)
    ELSE uhbIterator(hb, direction, mint, maxt, pipeline)

(***************************************************************************)
(* The iterators of package iter that MemChunk.Iterator composes.          *)
(***************************************************************************)
NewNonOverlappingIterator(its) == Concat(its)

NewEntryReversedIter(it) == Reverse(it)

RECURSIVE NewTimeRangedIterator(_, _, _)
NewTimeRangedIterator(it, mint, maxt) ==
    \* skips what lies before mint and halts at the first entry with t >= maxt
    IF it = <<>> THEN <<>>
    ELSE IF Head(it).t < mint THEN NewTimeRangedIterator(Tail(it), mint, maxt)
    ELSE IF Head(it).t >= maxt THEN <<>>
    ELSE <<Head(it)>> \o NewTimeRangedIterator(Tail(it), mint, maxt)

Before(direction, a, b) ==
    IF direction = "FORWARD" THEN a.t < b.t ELSE a.t > b.t

RECURSIVE NewSortEntryIterator(_, _)
NewSortEntryIterator(its, direction) ==
    \* heap merge: the next entry is the first entry of the iterator whose
    \* first entry comes first in the direction; of equal ones, the earliest
    \* iterator in the list
    LET live == {i \in 1..Len(its) : its[i] # <<>>}
    IN  IF live = {} THEN <<>>
        ELSE LET k == CHOOSE i \in live :
                        \A j \in live :
                            /\ ~Before(direction, Head(its[j]), Head(its[i]))
                            /\ (j < i => Before(direction, Head(its[i]), Head(its[j])))
             IN  <<Head(its[k])>>
                 \o NewSortEntryIterator([its EXCEPT ![k] = Tail(@)], direction)

(***************************************************************************)
(* MemChunk.Iterator.                                                      *)
(***************************************************************************)
RECURSIVE SelectBlocks(_, _, _, _, _, _)
SelectBlocks(ch, i, mint, maxt, pipeline, acc) ==
    \* the loop over c.blocks: acc carries blockItrs, lastMax and ordered
    IF i > Len(ch.blocks) THEN acc
    ELSE LET b == ch.blocks[i]
         IN  IF maxt < b.mint \/ b.maxt < mint
             THEN SelectBlocks(ch, i + 1, mint, maxt, pipeline, acc)
             ELSE SelectBlocks(ch, i + 1, mint, maxt, pipeline,
                    [itrs    |-> Append(acc.itrs, encBlockIterator(ch.encoding, ch.format, ch.symbolizer,
                                                              b, pipeline)),
                     lastMax |-> b.maxt,
                     ordered |-> acc.ordered /\ ~(b.mint < acc.lastMax)])

RECURSIVE ReverseEach(_, _, _)
ReverseEach(itrs, mint, maxt) ==
    IF itrs = <<>> THEN <<>>
    ELSE <<NewEntryReversedIter(NewTimeRangedIterator(Head(itrs), mint, maxt))>>
         \o ReverseEach(Tail(itrs), mint, maxt)

MergeIterators(its, ordered, direction) ==
    IF ordered THEN NewNonOverlappingIterator(its)
    ELSE NewSortEntryIterator(its, direction)

IteratorKeepsBlockOrder(ch, mint, maxt, direction, pipeline) ==
    \* Iterator without the reversal of the iterator list for BACKWARD
    With(SelectBlocks(ch, 1, mint, maxt, pipeline,
                      [itrs |-> <<>>, lastMax |-> 0, ordered |-> TRUE]), LAMBDA sel :
    With(~hbIsEmpty(ch.head), LAMBDA hasHead :
    With(sel.ordered /\ ~(hasHead /\ ch.head.mint < sel.lastMax), LAMBDA ordered :
    With(IF hasHead
         THEN <<LookupEntries(HeadIterator(ch.headFmt, ch.head, direction, mint, maxt,
                                           pipeline), ch.symbolizer)>>
         ELSE <<>>, LAMBDA headItr :
        IF direction = "FORWARD"
        THEN NewTimeRangedIterator(
                 MergeIterators(sel.itrs \o headItr, ordered, direction), mint, maxt)
        ELSE MergeIterators(ReverseEach(sel.itrs, mint, maxt) \o headItr,
                            ordered, direction)))))

Iterator(ch, mint, maxt, direction, pipeline) ==
    With(SelectBlocks(ch, 1, mint, maxt, pipeline,
                      [itrs |-> <<>>, lastMax |-> 0, ordered |-> TRUE]), LAMBDA sel :
    With(~hbIsEmpty(ch.head), LAMBDA hasHead :
    With(sel.ordered /\ ~(hasHead /\ ch.head.mint < sel.lastMax), LAMBDA ordered :
    With(IF hasHead
         THEN <<LookupEntries(HeadIterator(ch.headFmt, ch.head, direction, mint, maxt,
                                           pipeline), ch.symbolizer)>>
         ELSE <<>>, LAMBDA headItr :
        IF direction = "FORWARD"
        THEN NewTimeRangedIterator(
                 MergeIterators(sel.itrs \o headItr, ordered, direction), mint, maxt)
        ELSE MergeIterators(Reverse(ReverseEach(sel.itrs, mint, maxt) \o headItr),
                            ordered, direction)))))

(***************************************************************************)
(* Close, reorder and Rebound call each other.  A rebuilt chunk that       *)
(* reorder has already seen on the way down means the recursion never      *)
(* ends: the goroutine's stack overflows, which is reported as the error   *)
(* "StackOverflow" here.                                                   *)
(***************************************************************************)
RECURSIVE IsOrdered(_, _)
IsOrdered(blocks, lastMax) ==
    IF blocks = <<>> THEN TRUE
    ELSE ~(Head(blocks).mint < lastMax) /\ IsOrdered(Tail(blocks), Head(blocks).maxt)

EntryLabel(e) ==
    \* entry.NonIndexedLabels as the iterator hands it out: nothing, or the label
    IF "lbls" \in DOMAIN e /\ e.lbls # <<>> THEN e.lbls[1] ELSE <<>>

RECURSIVE ReboundLoop(_, _, _)
ReboundLoop(itr, newChunk, filter) ==
    IF itr = <<>> THEN [err |-> "nil", c |-> newChunk]
    ELSE IF FilterDrops(filter, Head(itr)) THEN ReboundLoop(Tail(itr), newChunk, filter)
    ELSE With(ChunkAppendEntry(newChunk, Head(itr).t, Head(itr).s, EntryLabel(Head(itr))),
              LAMBDA r :
             IF r.err # "nil" THEN r ELSE ReboundLoop(Tail(itr), r.c, filter))

ReboundFillKeepsTarget(ch, start, end, filter) ==
    \* Rebound giving the new chunk the original's target size in every case
    With(IF ch.headFmt < OrderedHeadBlockFmt THEN DefaultHeadBlockFmt
         ELSE ch.headFmt, LAMBDA headFmt :
    With(IF ch.blockSize > 0
         THEN NewMemChunk(ch.encoding, headFmt, ch.blockSize, ch.targetSize)
         ELSE NewMemChunk(ch.encoding, headFmt, defaultBlockSize, ch.targetSize),
         LAMBDA newChunk :
    With(ReboundLoop(Iterator(ch, start, end + Millisecond, "FORWARD", "noop"),
                     newChunk, filter), LAMBDA filled :
        IF filled.err # "nil" THEN [err |-> filled.err, c |-> ch]
        ELSE IF Size(filled.c) = 0 THEN [err |-> "ErrSliceNoDataInRange", c |-> ch]
        ELSE filled)))

ReboundFill(ch, start, end, filter) ==
    \* Rebound up to its closing call: the entries of [start, end + 1ms) that
    \* the filter keeps, appended to a fresh chunk
    With(IF ch.headFmt < OrderedHeadBlockFmt THEN DefaultHeadBlockFmt
         ELSE ch.headFmt, LAMBDA headFmt :
    With(IF ch.blockSize > 0
         THEN NewMemChunk(ch.encoding, headFmt, ch.blockSize, ch.targetSize)
         ELSE NewMemChunk(ch.encoding, headFmt, defaultBlockSize, CompressedSize(ch)),
         LAMBDA newChunk :
    With(ReboundLoop(Iterator(ch, start, end + Millisecond, "FORWARD", "noop"),
                     newChunk, filter), LAMBDA filled :
        IF filled.err # "nil" THEN [err |-> filled.err, c |-> ch]
        ELSE IF Size(filled.c) = 0 THEN [err |-> "ErrSliceNoDataInRange", c |-> ch]
        ELSE filled)))

OrElse(r, ch) ==
    \* a failed call leaves the receiver as it was
    IF r.err # "nil" THEN [err |-> r.err, c |-> ch] ELSE r

reorderKeepsBlocks(ch, seen) ==
    \* reorder that never rebuilds
    [err |-> "nil", c |-> ch]

RECURSIVE reorder(_, _)
reorder(ch, seen) ==
    \* reorder calls Rebound, whose last step closes the new chunk: cut, then
    \* reorder again.  seen holds the chunks this call chain has already been
    \* entered with; meeting one again means the chain never returns.
    IF IsOrdered(ch.blocks, 0) THEN [err |-> "nil", c |-> ch]
    ELSE IF ch \in seen THEN [err |-> "StackOverflow", c |-> ch]
    ELSE With(Bounds(ch), LAMBDA b :
         With(ReboundFill(ch, b[1], b[2], "nil"), LAMBDA filled :
             IF filled.err # "nil" THEN filled
             ELSE OrElse(reorder(cut(filled.c), seen \cup {ch}), ch)))

CloseSkipsCut(ch) ==
    \* Close without the cut of the head
    reorder(ch, {})

Close(ch) == reorder(cut(ch), {})

Rebound(ch, start, end, filter) ==
    With(ReboundFill(ch, start, end, filter), LAMBDA filled :
        IF filled.err # "nil" THEN filled
        ELSE OrElse(Close(filled.c), ch))

(***************************************************************************)
(* The symbol table of a v4 chunk: the strings of the label names and      *)
(* values in the order they were added, referred to by 0-based index.  Its *)
(* section on the wire is the number of strings followed by each string    *)
(* with its length, compressed with the chunk's encoding in the chunk      *)
(* proper and as it is in a checkpoint; the checksum follows the section.  *)
(***************************************************************************)
RECURSIVE symbolizerStrings(_)
symbolizerStrings(syms) ==
    IF syms = <<>> THEN <<>>
    ELSE PutUvarint(Len(Head(syms))) \o Head(syms) \o symbolizerStrings(Tail(syms))

symbolizerCheckpointTo(syms) ==
    With(PutUvarint(Len(syms)) \o symbolizerStrings(syms), LAMBDA b :
        [bytes |-> b, crc |-> crc32(b)])

symbolizerSerializeTo(syms, enc) ==
    With(Compress(enc, PutUvarint(Len(syms)) \o symbolizerStrings(syms)), LAMBDA b :
        [bytes |-> b, crc |-> crc32(b)])

(***************************************************************************)
(* MemChunk.writeTo for formats v1..v3: header, the blocks each followed   *)
(* by its checksum, the meta section with its checksum, the meta offset.   *)
(* It records each block's offset and the chunk's compressed size.         *)
(***************************************************************************)
RECURSIVE WriteBlocks(_, _, _, _)
WriteBlocks(blocks, i, offset, out) ==
    IF i > Len(blocks) THEN [blocks |-> blocks, offset |-> offset, out |-> out]
    ELSE With(blocks[i].b \o crc32(blocks[i].b), LAMBDA sum :
             WriteBlocks([blocks EXCEPT ![i].offset = offset], i + 1,
                         offset + Len(sum), out \o sum))

BlockMetaSwapsBounds(format, b) ==
    \* BlockMeta writing maxt where mint belongs and mint where maxt belongs
    PutUvarint(b.numEntries) \o PutVarint(b.maxt) \o PutVarint(b.mint)
    \o PutUvarint(b.offset)
    \o (IF format >= chunkFormatV3 THEN PutUvarint(b.uncompressedSize) ELSE <<>>)
    \o PutUvarint(Len(b.b))

BlockMeta(format, b) ==
    PutUvarint(b.numEntries) \o PutVarint(b.mint) \o PutVarint(b.maxt)
    \o PutUvarint(b.offset)
    \o (IF format >= chunkFormatV3 THEN PutUvarint(b.uncompressedSize) ELSE <<>>)
    \o PutUvarint(Len(b.b))

RECURSIVE BlockMetas(_, _)
BlockMetas(format, blocks) ==
    IF blocks = <<>> THEN <<>>
    ELSE BlockMeta(format, Head(blocks)) \o BlockMetas(format, Tail(blocks))

writeToCutsHead(ch, forCheckpoint) ==
    \* writeTo sealing the head first, so that the head's entries are written
    With(cut(ch), LAMBDA cc :
    With(magicNumber \o <<cc.format>>
         \o (IF cc.format > chunkFormatV1 THEN <<cc.encoding>> ELSE <<>>), LAMBDA header :
    With(WriteBlocks(cc.blocks, 1, Len(header), header), LAMBDA wb :
    With(PutUvarint(Len(wb.blocks)) \o BlockMetas(cc.format, wb.blocks), LAMBDA metas :
    With(wb.out \o metas \o crc32(metas) \o PutBE64(wb.offset), LAMBDA bytes :
        [bytes |-> bytes,
         n     |-> Len(bytes),
         c     |-> [cc EXCEPT !.blocks = wb.blocks, !.compressedSize = Len(bytes)]])))))

writeToCountsBlocksOnly(ch, forCheckpoint) ==
    \* writeTo recording the offset where the block metas begin as the size
    With(magicNumber \o <<ch.format>>
         \o (IF ch.format > chunkFormatV1 THEN <<ch.encoding>> ELSE <<>>), LAMBDA header :
    With(WriteBlocks(ch.blocks, 1, Len(header), header), LAMBDA wb :
    With(PutUvarint(Len(wb.blocks)) \o BlockMetas(ch.format, wb.blocks), LAMBDA metas :
    With(wb.out \o metas \o crc32(metas) \o PutBE64(wb.offset), LAMBDA bytes :
        [bytes |-> bytes,
         n     |-> Len(bytes),
         c     |-> [ch EXCEPT !.blocks = wb.blocks, !.compressedSize = wb.offset]]))))

writeTo(ch, forCheckpoint) ==
    With(magicNumber \o <<ch.format>>
         \o (IF ch.format > chunkFormatV1 THEN <<ch.encoding>> ELSE <<>>), LAMBDA header :
    With(IF ch.format < chunkFormatV4 THEN [bytes |-> <<>>, crc |-> <<>>]
         ELSE IF forCheckpoint THEN symbolizerCheckpointTo(ch.symbolizer)
         ELSE symbolizerSerializeTo(ch.symbolizer, ch.encoding), LAMBDA labels :
    With(WriteBlocks(ch.blocks, 1, Len(header) + Len(labels.bytes) + Len(labels.crc),
                     header \o labels.bytes \o labels.crc), LAMBDA wb :
    With(PutUvarint(Len(wb.blocks)) \o BlockMetas(ch.format, wb.blocks), LAMBDA metas :
    With(wb.out \o metas \o crc32(metas)
         \o (IF ch.format >= chunkFormatV4
             THEN PutBE64(Len(labels.bytes)) \o PutBE64(Len(header))
                  \o PutBE64(Len(metas))
             ELSE <<>>)
         \o PutBE64(wb.offset), LAMBDA bytes :
        [bytes |-> bytes,
         n     |-> Len(bytes),
         c     |-> [ch EXCEPT !.blocks = wb.blocks, !.compressedSize = Len(bytes)]])))))

(***************************************************************************)
(* newByteChunk.  decbuf reads past the end of its buffer yield zero and   *)
(* set its error.  From v4 on the sections' lengths and offsets are pairs  *)
(* of 8-byte integers at the end of the chunk, counted from the last one.  *)
(***************************************************************************)
NoChunk ==
    [blockSize |-> 0, targetSize |-> 0, blocks |-> <<>>, cutBlockSize |-> 0,
     head |-> EmptyHead, format |-> 0, encoding |-> 0, headFmt |-> 0,
     compressedSize |-> 0,
     symbolizer |-> <<>>]

dbResult(db, r) ==
    IF db.bad \/ r.n = 0 THEN [v |-> 0, db |-> [db EXCEPT !.bad = TRUE]]
    ELSE [v |-> r.v, db |-> [db EXCEPT !.pos = @ + r.n]]

dbUvarint(db) == dbResult(db, UvarintAt(db.b, db.pos))

dbVarint64(db) == dbResult(db, VarintAt(db.b, db.pos))

ReadBlockFailsOnBadCRC(b, version, i, num, bc, ne, mint, maxt, off, usz, l) ==
    \* ReadBlock giving up on the chunk when a block's checksum is wrong
    With([b |-> Slice(b, off.v, off.v + l.v), numEntries |-> ne.v,
          mint |-> mint.v, maxt |-> maxt.v, offset |-> off.v,
          uncompressedSize |-> usz.v], LAMBDA blk :
        IF off.v + l.v + 4 > Len(b) THEN [next |-> FALSE, err |-> "panic", c |-> NoChunk]
        ELSE IF Slice(b, off.v + l.v, off.v + l.v + 4) # crc32(blk.b)
        THEN [next |-> FALSE, err |-> "ErrInvalidChecksum", c |-> NoChunk]
        ELSE IF l.db.bad
        THEN [next |-> FALSE, err |-> "decoding block meta", c |-> NoChunk]
        ELSE [next |-> TRUE, err |-> "nil",
              c |-> [bc EXCEPT !.blocks = Append(@, blk),
                               !.cutBlockSize = @ + Len(blk.b)]])

ReadBlock(b, version, i, num, bc, ne, mint, maxt, off, usz, l) ==
    \* one pass of the loop over the block metas, after its fields are read
    With([b |-> Slice(b, off.v, off.v + l.v), numEntries |-> ne.v,
          mint |-> mint.v, maxt |-> maxt.v, offset |-> off.v,
          uncompressedSize |-> usz.v], LAMBDA blk :
        IF off.v + l.v + 4 > Len(b) THEN [next |-> FALSE, err |-> "panic", c |-> NoChunk]
        ELSE IF Slice(b, off.v + l.v, off.v + l.v + 4) # crc32(blk.b)
        THEN [next |-> TRUE, err |-> "nil", c |-> bc]
        ELSE IF l.db.bad
        THEN [next |-> FALSE, err |-> "decoding block meta", c |-> NoChunk]
        ELSE [next |-> TRUE, err |-> "nil",
              c |-> [bc EXCEPT !.blocks = Append(@, blk),
                               !.cutBlockSize = @ + Len(blk.b)]])

RECURSIVE ReadBlocks(_, _, _, _, _, _)
ReadBlocks(b, version, db, i, num, bc) ==
    IF i >= num THEN [err |-> "nil", c |-> bc]
    ELSE With(dbUvarint(db), LAMBDA ne :
         With(dbVarint64(ne.db), LAMBDA mint :
         With(dbVarint64(mint.db), LAMBDA maxt :
         With(dbUvarint(maxt.db), LAMBDA off :
         With(IF version >= chunkFormatV3 THEN dbUvarint(off.db)
              ELSE [v |-> 0, db |-> off.db], LAMBDA usz :
         With(dbUvarint(usz.db), LAMBDA l :
         With(ReadBlock(b, version, i, num, bc, ne, mint, maxt, off, usz, l), LAMBDA r :
             IF r.next THEN ReadBlocks(b, version, l.db, i + 1, num, r.c)
             ELSE [err |-> r.err, c |-> r.c])))))))

chunkMetasSectionIdx == 1

chunkNonIndexedLabelsSectionIdx == 2

readSectionLenAndOffset(b, idx) ==
    With(Len(b) - (idx * 16), LAMBDA lenAndOffsetPos :
        [len    |-> BEValue(Slice(b, lenAndOffsetPos, lenAndOffsetPos + 8)),
         offset |-> BEValue(Slice(b, lenAndOffsetPos + 8, lenAndOffsetPos + 16))])

KnownCodecs == 0..9
    \* none, gzip, dumb, lz4-64k, snappy, lz4-256k, lz4-1M, lz4-4M, flate, zstd

RECURSIVE symbolizerLoad(_, _, _)
symbolizerLoad(db, n, syms) ==
    \* n strings, each after its length; the load stops where the bytes end
    IF n = 0 \/ db.bad THEN syms
    ELSE With(dbUvarint(db), LAMBDA l :
             IF l.db.bad \/ l.db.pos + l.v > Len(db.b) THEN syms
             ELSE symbolizerLoad([l.db EXCEPT !.pos = @ + l.v], n - 1,
                                 Append(syms, Slice(db.b, l.db.pos, l.db.pos + l.v))))

symbolizerFromCheckpoint(b) ==
    With(dbUvarint([b |-> b, pos |-> 0, bad |-> FALSE]), LAMBDA n :
        symbolizerLoad(n.db, n.v, <<>>))

symbolizerFromEnc(b, enc) == symbolizerFromCheckpoint(Decompress(enc, b))

ReadSymbolsUnchecked(b, bc, fromCheckpoint) ==
    \* ReadSymbols loading the symbol table without comparing its checksum
    IF bc.format < chunkFormatV4 THEN [err |-> "nil", c |-> bc]
    ELSE With(readSectionLenAndOffset(b, chunkNonIndexedLabelsSectionIdx), LAMBDA s :
         With(Slice(b, s.offset, s.offset + s.len), LAMBDA lb :
             IF Len(b) < 32 \/ s.offset + s.len + 4 > Len(b)
             THEN [err |-> "panic", c |-> NoChunk]
             ELSE IF fromCheckpoint
             THEN [err |-> "nil", c |-> [bc EXCEPT !.symbolizer = symbolizerFromCheckpoint(lb)]]
             ELSE IF bc.encoding \notin KnownCodecs
             THEN [err |-> "unknown encoding", c |-> NoChunk]
             ELSE [err |-> "nil",
                   c |-> [bc EXCEPT !.symbolizer = symbolizerFromEnc(lb, bc.encoding)]]))

ReadSymbols(b, bc, fromCheckpoint) ==
    \* the end of newByteChunk: from v4 on, the symbol table section, its
    \* checksum, and the table loaded from it
    IF bc.format < chunkFormatV4 THEN [err |-> "nil", c |-> bc]
    ELSE With(readSectionLenAndOffset(b, chunkNonIndexedLabelsSectionIdx), LAMBDA s :
         With(Slice(b, s.offset, s.offset + s.len), LAMBDA lb :
             IF Len(b) < 32 \/ s.offset + s.len + 4 > Len(b)
             THEN [err |-> "panic", c |-> NoChunk]
             ELSE IF Slice(b, s.offset + s.len, s.offset + s.len + 4) # crc32(lb)
             THEN [err |-> "ErrInvalidChecksum", c |-> NoChunk]
             ELSE IF fromCheckpoint
             THEN [err |-> "nil", c |-> [bc EXCEPT !.symbolizer = symbolizerFromCheckpoint(lb)]]
             ELSE IF bc.encoding \notin KnownCodecs
             THEN [err |-> "unknown encoding", c |-> NoChunk]
             ELSE [err |-> "nil",
                   c |-> [bc EXCEPT !.symbolizer = symbolizerFromEnc(lb, bc.encoding)]]))

newByteChunkAt(b, blockSize, targetSize, version, metasOffset, metasLen, mb) ==
    IF Len(b) < 5 THEN [err |-> "verifying header", c |-> NoChunk]
    ELSE IF SubSeq(b, 1, 4) # magicNumber THEN [err |-> "invalid magic number", c |-> NoChunk]
    ELSE IF version \notin {chunkFormatV1, chunkFormatV2, chunkFormatV3, chunkFormatV4}
    THEN [err |-> "invalid version", c |-> NoChunk]
    ELSE IF version \in {chunkFormatV2, chunkFormatV3, chunkFormatV4} /\ Len(b) < 6
    THEN [err |-> "verifying encoding", c |-> NoChunk]
    ELSE IF Len(b) < (IF version >= chunkFormatV4 THEN 16 ELSE 8)
            \/ metasLen < 0 \/ metasOffset + metasLen + 4 > Len(b)
    THEN [err |-> "panic", c |-> NoChunk]
    ELSE IF Slice(b, metasOffset + metasLen, metasOffset + metasLen + 4) # crc32(mb)
    THEN [err |-> "ErrInvalidChecksum", c |-> NoChunk]
    ELSE With(dbUvarint([b |-> mb, pos |-> 0, bad |-> FALSE]), LAMBDA num :
             ReadBlocks(b, version, num.db, 0, num.v,
                        [blockSize |-> blockSize, targetSize |-> targetSize,
                         blocks |-> <<>>, cutBlockSize |-> 0, head |-> EmptyHead,
                         format |-> version,
                         encoding |-> IF version = chunkFormatV1 THEN EncGZIP ELSE b[6],
                         headFmt |-> 0, compressedSize |-> Len(b),
                         symbolizer |-> <<>>]))

newByteChunk(b, blockSize, targetSize, fromCheckpoint) ==
    With(IF Len(b) >= 16 /\ b[5] >= chunkFormatV4
         THEN readSectionLenAndOffset(b, chunkMetasSectionIdx)
         ELSE With(BEValue(Slice(b, Len(b) - 8, Len(b))), LAMBDA metasOffset :
                  [len |-> (Len(b) - (8 + 4)) - metasOffset, offset |-> metasOffset]),
         LAMBDA metas :
    With(newByteChunkAt(b, blockSize, targetSize, b[5], metas.offset, metas.len,
                        Slice(b, metas.offset, metas.offset + metas.len)), LAMBDA r :
        IF r.err # "nil" THEN r ELSE ReadSymbols(b, r.c, fromCheckpoint)))

(***************************************************************************)
(* The state machine: one chunk, created by newMemChunkWithFormat with one *)
(* of the configurations below, and the operations a caller applies to it. *)
(* Format v1 has no codec byte and is always gzip.                         *)
(***************************************************************************)
Times == -1..MaxT

Lines == {LineA, LineBB}

Directions == {"FORWARD", "BACKWARD"}

Configs ==
    \* <<format, encoding, head format, blockSize, targetSize>>
    { <<chunkFormatV3, EncNone, OrderedHeadBlockFmt,   2, 0>>,
      <<chunkFormatV3, EncNone, UnorderedHeadBlockFmt, 2, 0>>,
      <<chunkFormatV3, EncNone, OrderedHeadBlockFmt,   2, 7>>,
      <<chunkFormatV3, EncGZIP, UnorderedHeadBlockFmt, 2, 8>>,
      <<chunkFormatV2, EncGZIP, OrderedHeadBlockFmt,   2, 0>>,
      <<chunkFormatV1, EncGZIP, UnorderedHeadBlockFmt, 2, 0>>,
      <<chunkFormatV3, EncGZIP, OrderedHeadBlockFmt,   0, 0>>,
      <<chunkFormatV2, EncNone, UnorderedHeadBlockFmt, 0, 0>> }

NoOp ==
    [op |-> "New", t |-> 0, line |-> <<>>, from |-> 0, to |-> 0,
     dir |-> "", pipe |-> "", filter |-> "", corrupt |-> 0, spaceFor |-> TRUE,
     err |-> "nil", out |-> <<>>, bytes |-> <<>>, res |-> NoChunk,
     damage |-> "none"]

NoIterator ==
    [open |-> FALSE, done |-> FALSE, c |-> NoChunk, arr |-> <<>>, to |-> 0,
     dir |-> "", emitted |-> <<>>, snap |-> <<>>]

NoCheckpoint ==
    [pc |-> "call", err |-> "nil", head |-> <<>>, headWhole |-> <<>>,
     headRefs |-> {}, symsAtHead |-> 0, chk |-> <<>>, add |-> <<>>,
     mc |-> NoChunk]

Crashed == last.err = "StackOverflow"

Observed == last.op \in {"Iterator", "Rebound", "NewByteChunk"}
    \* Iterator, Rebound and NewByteChunk leave the chunk as it is: whatever
    \* follows one of them follows equally from the state before it, so a
    \* behaviour is explored up to its first observation

Init ==
    /\ \E k \in Configs : c = newMemChunkWithFormat(k[1], k[2], k[3], k[4], k[5])
    /\ last = NoOp
    /\ prev = NoChunk
    /\ admit = TRUE
    /\ appended = 0
    /\ rebuilt = FALSE
    /\ inFlight = NoIterator
    /\ ckpt = NoCheckpoint

DoAppend ==
    /\ ~Crashed /\ ~Observed
    /\ appended < MaxAppends
    /\ \E t \in Times, line \in Lines :
         LET r == ChunkAppend(c, t, line)
         IN  /\ c' = r.c
             /\ last' = [NoOp EXCEPT !.op = "Append", !.t = t, !.line = line,
                                     !.spaceFor = SpaceFor(c, line), !.err = r.err]
             /\ admit' = (admit /\ SpaceFor(c, line))
             /\ appended' = IF r.err = "nil" THEN appended + 1 ELSE appended
    /\ prev' = c
    /\ UNCHANGED <<inFlight, ckpt>>
    /\ UNCHANGED rebuilt

DoClose ==
    /\ ~Crashed /\ ~Observed
    /\ LET r == Close(c)
       IN  /\ c' = IF r.err = "StackOverflow" THEN cut(c) ELSE r.c
           /\ last' = [NoOp EXCEPT !.op = "Close", !.err = r.err]
    /\ prev' = c
    /\ UNCHANGED <<inFlight, ckpt>>
    /\ rebuilt' = (rebuilt \/ ~IsOrdered(cut(c).blocks, 0))
    /\ UNCHANGED <<admit, appended>>

DoIterator ==
    /\ ~Crashed /\ ~Observed
    /\ \E from \in Times, to \in Times \cup {MaxT + 1}, d \in Directions, p \in Pipelines :
         /\ from < to
         /\ last' = [NoOp EXCEPT !.op = "Iterator", !.from = from, !.to = to,
                                 !.dir = d, !.pipe = p,
                                 !.out = Iterator(c, from, to, d, p)]
    /\ prev' = c
    /\ UNCHANGED <<inFlight, ckpt>>
    /\ UNCHANGED <<c, admit, appended, rebuilt>>

DoRebound ==
    /\ ~Crashed /\ ~Observed
    /\ \E a \in Times, b \in Times, f \in Filters :
         /\ a <= b
         /\ LET r == Rebound(c, a, b, f)
            IN  last' = [NoOp EXCEPT !.op = "Rebound", !.from = a, !.to = b,
                                     !.filter = f, !.err = r.err,
                                     !.res = IF r.err = "nil" THEN r.c ELSE NoChunk]
    /\ prev' = c
    /\ UNCHANGED <<inFlight, ckpt>>
    /\ UNCHANGED <<c, admit, appended, rebuilt>>

DoWriteTo ==
    /\ ~Crashed /\ ~Observed
    /\ LET w == writeTo(c, FALSE)
       IN  /\ c' = w.c
           /\ last' = [NoOp EXCEPT !.op = "WriteTo", !.bytes = w.bytes]
    /\ prev' = c
    /\ UNCHANGED <<inFlight, ckpt>>
    /\ UNCHANGED <<admit, appended, rebuilt>>

CorruptAt(bytes, pos) ==
    \* one byte of the serialized chunk altered (pos counts from 0)
    [bytes EXCEPT ![pos + 1] = (@ + 1) % 256]

DoNewByteChunk ==
    \* the bytes just written are read back, as they are (k = 0) or with the
    \* first payload byte of block k altered
    /\ ~Crashed /\ ~Observed
    /\ last.op = "WriteTo"
    /\ \E k \in 0..Len(c.blocks) :
         LET bytes == IF k = 0 THEN last.bytes
                      ELSE CorruptAt(last.bytes, c.blocks[k].offset)
             r     == newByteChunk(bytes, c.blockSize, c.targetSize, FALSE)
         IN  last' = [NoOp EXCEPT !.op = "NewByteChunk", !.corrupt = k,
                                  !.bytes = bytes, !.err = r.err, !.res = r.c]
    /\ prev' = c
    /\ UNCHANGED <<inFlight, ckpt>>
    /\ UNCHANGED <<c, admit, appended, rebuilt>>

Next ==
    \/ DoAppend
    \/ DoClose
    \/ DoIterator
    \/ DoRebound
    \/ DoWriteTo
    \/ DoNewByteChunk

Spec == Init /\ [][Next]_vars

(***************************************************************************)
(* The same machine restricted to the operations a property is about.      *)
(***************************************************************************)
NextAppend ==
    \/ DoAppend
    \/ DoClose

SpecAppend == Init /\ [][NextAppend]_vars

NextIterator ==
    \/ DoAppend
    \/ DoClose
    \/ DoIterator

SpecIterator == Init /\ [][NextIterator]_vars

NextRebound ==
    \/ DoAppend
    \/ DoClose
    \/ DoRebound

SpecRebound == Init /\ [][NextRebound]_vars

NextWire ==
    \/ DoAppend
    \/ DoClose
    \/ DoWriteTo
    \/ DoNewByteChunk

SpecWire == Init /\ [][NextWire]_vars

(***************************************************************************)
(* A writer that fills a chunk up to what SpaceFor admits: it asks         *)
(* SpaceFor before every Append, and it cuts blocks of one short line      *)
(* followed by a long one, or of a long line alone.                        *)
(***************************************************************************)
DeepConfigs ==
    {<<chunkFormatV3, EncNone, OrderedHeadBlockFmt, 2, 0>>,
     <<chunkFormatV3, EncNone, UnorderedHeadBlockFmt, 2, 0>>}

InitDeep ==
    /\ \E k \in DeepConfigs : c = newMemChunkWithFormat(k[1], k[2], k[3], k[4], k[5])
    /\ last = NoOp
    /\ prev = NoChunk
    /\ admit = TRUE
    /\ appended = 0
    /\ rebuilt = FALSE
    /\ inFlight = NoIterator
    /\ ckpt = NoCheckpoint

DeepInputs(ch) ==
    IF hbIsEmpty(ch.head) THEN {Entry(1, LineA), Entry(2, LineBB)}
    ELSE {Entry(2, LineBB)}

DoAppendAdmitted ==
    /\ ~Crashed /\ ~Observed
    /\ appended < MaxDeepAppends
    /\ \E e \in DeepInputs(c) :
         /\ SpaceFor(c, e.s)
         /\ LET r == ChunkAppend(c, e.t, e.s)
            IN  /\ c' = r.c
                /\ last' = [NoOp EXCEPT !.op = "Append", !.t = e.t, !.line = e.s,
                                        !.spaceFor = TRUE, !.err = r.err]
                /\ appended' = IF r.err = "nil" THEN appended + 1 ELSE appended
    /\ prev' = c
    /\ UNCHANGED <<inFlight, ckpt>>
    /\ UNCHANGED <<admit, rebuilt>>

NextDeep ==
    \/ DoAppendAdmitted
    \/ DoClose

SpecDeep == InitDeep /\ [][NextDeep]_vars

(***************************************************************************)
(* A writer that keeps appending whatever SpaceFor answers, with lines     *)
(* that compress well: blocks of three long lines under a small target.    *)
(***************************************************************************)
LineRun == <<4, 4, 4, 4>>

OverfillConfigs ==
    {<<chunkFormatV3, EncGZIP, OrderedHeadBlockFmt, 12, 5>>,
     <<chunkFormatV3, EncNone, OrderedHeadBlockFmt, 12, 5>>}

InitOverfill ==
    /\ \E k \in OverfillConfigs : c = newMemChunkWithFormat(k[1], k[2], k[3], k[4], k[5])
    /\ last = NoOp
    /\ prev = NoChunk
    /\ admit = TRUE
    /\ appended = 0
    /\ rebuilt = FALSE
    /\ inFlight = NoIterator
    /\ ckpt = NoCheckpoint

DoAppendAny ==
    /\ ~Crashed /\ ~Observed
    /\ appended < MaxOverfill
    /\ \E t \in 1..2, line \in {LineA, LineRun} :
         LET r == ChunkAppend(c, t, line)
         IN  /\ c' = r.c
             /\ last' = [NoOp EXCEPT !.op = "Append", !.t = t, !.line = line,
                                     !.spaceFor = SpaceFor(c, line), !.err = r.err]
             /\ admit' = (admit /\ SpaceFor(c, line))
             /\ appended' = IF r.err = "nil" THEN appended + 1 ELSE appended
    /\ prev' = c
    /\ UNCHANGED <<inFlight, ckpt>>
    /\ UNCHANGED rebuilt

NextOverfill ==
    \/ DoAppendAny
    \/ DoClose

SpecOverfill == InitOverfill /\ [][NextOverfill]_vars

(***************************************************************************)
(* Scenario S1: entries with t = 1, 2, ... and the lines "e1", "e2", ...   *)
(* appended to a gzip chunk with the ordered head, block size 512 and no   *)
(* target size, and the chunk closed at the end.                           *)
(***************************************************************************)
S1Entries == 100

S1BlockSize == 512

RECURSIVE Decimal(_)
Decimal(n) ==
    \* the decimal digits of n, as bytes
    IF n < 10 THEN <<48 + n>> ELSE Decimal(n \div 10) \o <<48 + (n % 10)>>

S1Line(i) == <<101>> \o Decimal(i)

InitS1 ==
    /\ c = NewMemChunk(EncGZIP, OrderedHeadBlockFmt, S1BlockSize, 0)
    /\ last = NoOp
    /\ prev = NoChunk
    /\ admit = TRUE
    /\ appended = 0
    /\ rebuilt = FALSE
    /\ inFlight = NoIterator
    /\ ckpt = NoCheckpoint

DoAppendS1 ==
    /\ ~Crashed /\ ~Observed
    /\ last.op # "Close"
    /\ appended < S1Entries
    /\ LET t    == appended + 1
           line == S1Line(appended + 1)
           r    == ChunkAppend(c, t, line)
       IN  /\ c' = r.c
           /\ last' = [NoOp EXCEPT !.op = "Append", !.t = t, !.line = line,
                                   !.spaceFor = SpaceFor(c, line), !.err = r.err]
           /\ admit' = (admit /\ SpaceFor(c, line))
           /\ appended' = IF r.err = "nil" THEN appended + 1 ELSE appended
    /\ prev' = c
    /\ UNCHANGED <<inFlight, ckpt>>
    /\ UNCHANGED rebuilt

NextS1 ==
    \/ DoAppendS1
    \/ DoClose

SpecS1 == InitS1 /\ [][NextS1]_vars

(***************************************************************************)
(* An iterator in flight.  MemChunk.Iterator builds one iterator per       *)
(* selected block, each over the block's own bytes, which nothing writes   *)
(* after the cut, and one over the head.  The head keeps one backing array *)
(* for its entries: Reset truncates the slice to length 0 and the next     *)
(* Append writes its entry into the first slot again.  arr is the content  *)
(* of the slots the head's slice covered when the iterator was built, as   *)
(* the later Appends leave them.  headBlock.Iterator copies every entry    *)
(* that passes into its own stream at construction, so what Next returns   *)
(* is read from the copy.                                                  *)
(***************************************************************************)
SnapshotConfigs ==
    { <<chunkFormatV3, EncNone, OrderedHeadBlockFmt, 2, 0>>,
      <<chunkFormatV2, EncGZIP, OrderedHeadBlockFmt, 2, 0>> }

SnapshotFrom == -1

SnapshotTos == {1, MaxT + 1}

StoreInto(arr, pos, e) ==
    IF pos <= Len(arr) THEN [arr EXCEPT ![pos] = e] ELSE arr

headEntriesAliased(copied, arr) == arr

headEntriesRead(copied, arr) == copied

Pending(i) ==
    \* everything the iterator returns from construction to exhaustion
    Iterator([i.c EXCEPT !.head.entries = headEntriesRead(i.c.head.entries, i.arr)],
             SnapshotFrom, i.to, i.dir, "noop")

InitSnapshot ==
    /\ \E k \in SnapshotConfigs : c = newMemChunkWithFormat(k[1], k[2], k[3], k[4], k[5])
    /\ last = NoOp
    /\ prev = NoChunk
    /\ admit = TRUE
    /\ appended = 0
    /\ rebuilt = FALSE
    /\ inFlight = NoIterator
    /\ ckpt = NoCheckpoint

DoAppendInFlight ==
    /\ ~Crashed /\ ~Observed
    /\ appended < MaxAppends
    /\ \E t \in Times, line \in Lines :
         LET r == ChunkAppend(c, t, line)
         IN  /\ c' = r.c
             /\ last' = [NoOp EXCEPT !.op = "Append", !.t = t, !.line = line,
                                     !.spaceFor = SpaceFor(c, line), !.err = r.err]
             /\ admit' = (admit /\ SpaceFor(c, line))
             /\ appended' = IF r.err = "nil" THEN appended + 1 ELSE appended
             /\ inFlight' = IF inFlight.open /\ r.err = "nil"
                      THEN [inFlight EXCEPT !.arr = StoreInto(@, Len(c.head.entries) + 1,
                                                        Entry(t, line))]
                      ELSE inFlight
    /\ prev' = c
    /\ UNCHANGED <<rebuilt, ckpt>>

DoOpenIterator ==
    /\ ~Crashed /\ ~Observed
    /\ ~inFlight.open
    /\ \E to \in SnapshotTos, d \in Directions :
         inFlight' = [open |-> TRUE, done |-> FALSE, c |-> c, arr |-> c.head.entries,
                to |-> to, dir |-> d, emitted |-> <<>>,
                snap |-> Iterator(c, SnapshotFrom, to, d, "noop")]
    /\ last' = [NoOp EXCEPT !.op = "OpenIterator"]
    /\ prev' = c
    /\ UNCHANGED <<c, admit, appended, rebuilt, ckpt>>

DoNextEntry ==
    \* Next(): the following entry, or false once there is none
    /\ ~Crashed /\ ~Observed
    /\ inFlight.open /\ ~inFlight.done
    /\ inFlight' = IF Len(inFlight.emitted) < Len(Pending(inFlight))
             THEN [inFlight EXCEPT !.emitted = Append(@, Pending(inFlight)[Len(inFlight.emitted) + 1])]
             ELSE [inFlight EXCEPT !.done = TRUE]
    /\ last' = [NoOp EXCEPT !.op = "Next"]
    /\ prev' = c
    /\ UNCHANGED <<c, admit, appended, rebuilt, ckpt>>

NextSnapshot ==
    \/ DoAppendInFlight
    \/ DoOpenIterator
    \/ DoNextEntry

SpecSnapshot == InitSnapshot /\ [][NextSnapshot]_vars

(***************************************************************************)
(* Checkpointing a v4 chunk whose head keeps non-indexed labels.  An       *)
(* Append first adds the entry's labels to the symbol table and then puts  *)
(* the entry, with the references it got, into the head;                   *)
(* SerializeForCheckpointTo calls head.CheckpointTo and then writeTo.  The *)
(* four steps are taken one at a time, in any interleaving that keeps the  *)
(* order within an Append and within SerializeForCheckpointTo.  The head   *)
(* writer may fail at any of its Write calls.                              *)
(***************************************************************************)
MaxCheckpointAppends == 4

CheckpointBlockSize == 2

CheckpointTimes == 1..2

Labels == { <<>>, << <<120>>, <<49>> >>, << <<121>>, <<49>> >> }

RECURSIVE CheckpointEntryWrites(_)
CheckpointEntryWrites(es) ==
    \* per entry one Write of the timestamp and the line length, one of the
    \* line and, in a head that keeps labels, one of the symbol references
    IF es = <<>> THEN <<>>
    ELSE << PutVarint(Head(es).t) \o PutUvarint(Len(Head(es).s)), Head(es).s >>
         \o (IF "syms" \in DOMAIN Head(es)
             THEN << PutUvarint(Len(Head(es).syms)) \o EncodeSymbols(Head(es).syms) >>
             ELSE <<>>)
         \o CheckpointEntryWrites(Tail(es))

hbCheckpointTo(f, hb) ==
    \* the Write calls of CheckpointTo, in order
    << <<f>>,
       PutUvarint(Len(hb.entries)) \o PutUvarint(hb.size)
       \o PutVarint(hb.mint) \o PutVarint(hb.maxt) >>
    \o CheckpointEntryWrites(hb.entries)

RECURSIVE Written(_, _)
Written(writes, n) ==
    \* what a writer holds after the first n Write calls
    IF n = 0 \/ writes = <<>> THEN <<>>
    ELSE Head(writes) \o Written(Tail(writes), n - 1)

RECURSIVE EntryRefs(_)
EntryRefs(es) ==
    \* the symbol indices the entries refer to
    IF es = <<>> THEN {}
    ELSE {Head(es).syms[i][k] : i \in DOMAIN Head(es).syms, k \in 1..2}
         \cup EntryRefs(Tail(es))

SerializeChunkFirst(pc, err) ==
    \* SerializeForCheckpointTo writing the chunk before the head
    IF pc = "call" THEN "c.writeTo"
    ELSE IF pc = "c.writeTo" THEN "head.CheckpointTo"
    ELSE "return"

SerializeForCheckpointTo(pc, err) ==
    \* the step that follows position pc of SerializeForCheckpointTo
    IF pc = "call" THEN "head.CheckpointTo"
    ELSE IF pc = "head.CheckpointTo" /\ err = "nil" THEN "c.writeTo"
    ELSE "return"

InitCheckpoint ==
    /\ c = newMemChunkWithFormat(chunkFormatV4, EncGZIP,
                                 UnorderedWithNonIndexedLabelsHeadBlockFmt,
                                 CheckpointBlockSize, 0)
    /\ last = NoOp
    /\ prev = NoChunk
    /\ admit = TRUE
    /\ appended = 0
    /\ rebuilt = FALSE
    /\ inFlight = NoIterator
    /\ ckpt = NoCheckpoint

DoSymbolizerAdd ==
    \* the first half of an Append: the labels go into the symbol table
    /\ ckpt.add = <<>>
    /\ appended < MaxCheckpointAppends
    /\ \E t \in CheckpointTimes, lbl \in Labels :
         LET r == symbolizerAdd(c.symbolizer, lbl)
         IN  /\ c' = [c EXCEPT !.symbolizer = r.syms]
             /\ ckpt' = [ckpt EXCEPT !.add = <<t, r.refs>>]
             /\ last' = [NoOp EXCEPT !.op = "symbolizer.Add", !.t = t]
    /\ prev' = c
    /\ UNCHANGED <<admit, appended, rebuilt, inFlight>>

DoHeadAppend ==
    \* the second half: the entry goes into the head, which may be cut
    /\ ckpt.add # <<>>
    /\ LET r == ChunkAppendLabels(c, ckpt.add[1], LineA, ckpt.add[2])
       IN  /\ c' = r.c
           /\ last' = [NoOp EXCEPT !.op = "Append", !.t = ckpt.add[1], !.line = LineA,
                                   !.err = r.err]
    /\ ckpt' = [ckpt EXCEPT !.add = <<>>]
    /\ appended' = appended + 1
    /\ prev' = c
    /\ UNCHANGED <<admit, rebuilt, inFlight>>

DoHeadCheckpointTo ==
    /\ SerializeForCheckpointTo(ckpt.pc, ckpt.err) = "head.CheckpointTo"
    /\ LET writes == hbCheckpointTo(c.headFmt, c.head)
       IN  \E failAt \in 0..Len(writes) :
             ckpt' = [ckpt EXCEPT
                        !.pc = "head.CheckpointTo",
                        !.err = IF failAt = 0 THEN "nil" ELSE "write headBlock",
                        !.head = IF failAt = 0 THEN Written(writes, Len(writes))
                                 ELSE Written(writes, failAt - 1),
                        !.headWhole = Written(writes, Len(writes)),
                        !.headRefs = EntryRefs(c.head.entries),
                        !.symsAtHead = Len(c.symbolizer)]
    /\ last' = [NoOp EXCEPT !.op = "head.CheckpointTo"]
    /\ prev' = c
    /\ UNCHANGED <<c, admit, appended, rebuilt, inFlight>>

DoWriteToCheckpoint ==
    /\ SerializeForCheckpointTo(ckpt.pc, ckpt.err) = "c.writeTo"
    /\ LET w == writeTo(c, TRUE)
       IN  /\ c' = w.c
           /\ ckpt' = [ckpt EXCEPT !.pc = "c.writeTo", !.chk = w.bytes]
           /\ last' = [NoOp EXCEPT !.op = "writeTo", !.bytes = w.bytes]
    /\ prev' = c
    /\ UNCHANGED <<admit, appended, rebuilt, inFlight>>

NextCheckpoint ==
    \/ DoSymbolizerAdd
    \/ DoHeadAppend
    \/ DoHeadCheckpointTo
    \/ DoWriteToCheckpoint

SpecCheckpoint == InitCheckpoint /\ [][NextCheckpoint]_vars

(***************************************************************************)
(* What a chunk holds: the entries its sealed blocks decode to, in block   *)
(* order, followed by the entries of its head.                             *)
(***************************************************************************)
RECURSIVE BlockEntries(_, _)
BlockEntries(enc, blocks) ==
    IF blocks = <<>> THEN <<>>
    ELSE bufferedIterator(enc, Head(blocks).b) \o BlockEntries(enc, Tail(blocks))

Entries(ch) == BlockEntries(ch.encoding, ch.blocks) \o ch.head.entries

RECURSIVE MaxTs(_)
MaxTs(es) ==
    IF Len(es) = 1 THEN es[1].t ELSE MaxOf(es[1].t, MaxTs(Tail(es)))

RECURSIVE MinTs(_)
MinTs(es) ==
    IF Len(es) = 1 THEN es[1].t ELSE MinOf(es[1].t, MinTs(Tail(es)))

LargestHeld(ch) ==
    IF ~hbIsEmpty(ch.head) THEN ch.head.maxt ELSE ch.blocks[Len(ch.blocks)].maxt

(***************************************************************************)
(* C1.  For a chunk with the ordered head format, Append returns           *)
(* ErrOutOfOrder exactly when the entry's timestamp is strictly less than  *)
(* the largest timestamp the chunk holds, which is the head's maxt when    *)
(* the head is non-empty and the last sealed block's maxt otherwise; an    *)
(* entry with a timestamp equal to that maximum is accepted.               *)
(***************************************************************************)
C1_OutOfOrderExact ==
    (last.op = "Append" /\ IsOrderedFmt(prev.headFmt)) =>
        /\ last.err \in {"nil", "ErrOutOfOrder"}
        /\ Entries(prev) # <<>> => LargestHeld(prev) = MaxTs(Entries(prev))
        /\ last.err = "ErrOutOfOrder"
             <=> (Entries(prev) # <<>> /\ last.t < LargestHeld(prev))

C1_EqualAccepted ==
    /\ last.op = "Append" /\ IsOrderedFmt(prev.headFmt)
    /\ Entries(prev) # <<>> /\ last.t = LargestHeld(prev)
    /\ last.err = "nil" /\ Size(c) = Size(prev) + 1

(***************************************************************************)
(* C2.  A chunk created with the ordered head format and changed only by   *)
(* Append and Close has, in every state, each sealed block starting no     *)
(* earlier than the block before it ended.                                 *)
(***************************************************************************)
C2_OrderedBlocksAscend ==
    IsOrderedFmt(c.headFmt) =>
        \A i \in 2..Len(c.blocks) : c.blocks[i].mint >= c.blocks[i - 1].maxt

C2_ThreeBlocksClosed ==
    /\ IsOrderedFmt(c.headFmt) /\ last.op = "Close" /\ last.err = "nil"
    /\ Len(c.blocks) = 3 /\ Len(prev.blocks) = 2
    /\ c.blocks[1].maxt < c.blocks[3].mint

(***************************************************************************)
(* C3.  Cut protocol, for a chunk with blockSize > 0: a successful Append  *)
(* that brings the head's uncompressed size to blockSize or beyond adds    *)
(* exactly one sealed block, which carries the entry count, mint, maxt and *)
(* uncompressed size the head has with the appended entry and decodes to   *)
(* the head's entries, and leaves the head empty; a successful Append that *)
(* stays below blockSize adds no block.  So the head's uncompressed size   *)
(* is below blockSize after every successful Append.                       *)
(***************************************************************************)
C3_CutProtocol ==
    (last.op = "Append" /\ last.err = "nil" /\ prev.blockSize > 0) =>
        LET full == HeadAppend(prev.headFmt, prev.head, last.t, last.line).hb
        IN  /\ c.head.size < c.blockSize
            /\ full.entries = Append(prev.head.entries, Entry(last.t, last.line))
            /\ full.size = prev.head.size + Len(last.line)
            /\ IF full.size >= prev.blockSize
               THEN /\ Len(c.blocks) = Len(prev.blocks) + 1
                    /\ SubSeq(c.blocks, 1, Len(prev.blocks)) = prev.blocks
                    /\ c.blocks[Len(c.blocks)].numEntries = Len(full.entries)
                    /\ c.blocks[Len(c.blocks)].mint = full.mint
                    /\ c.blocks[Len(c.blocks)].maxt = full.maxt
                    /\ c.blocks[Len(c.blocks)].uncompressedSize = full.size
                    /\ bufferedIterator(c.encoding, c.blocks[Len(c.blocks)].b)
                         = full.entries
                    /\ c.head = EmptyHead
               ELSE /\ c.blocks = prev.blocks
                    /\ c.head = full

C3_CutOfTwoEntries ==
    /\ last.op = "Append" /\ last.err = "nil" /\ prev.blockSize > 0
    /\ Len(prev.head.entries) = 1
    /\ Len(c.blocks) = Len(prev.blocks) + 1
    /\ c.blocks[Len(c.blocks)].numEntries = 2
    /\ hbIsEmpty(c.head)

Count(es, e) == Cardinality({i \in DOMAIN es : es[i] = e})

SameEntries(a, b) ==
    \* the same entries, each as often in a as in b
    \A e \in {a[i] : i \in DOMAIN a} \cup {b[i] : i \in DOMAIN b} :
        Count(a, e) = Count(b, e)

Ascending(blocks) ==
    \A i \in 2..Len(blocks) : blocks[i].mint >= blocks[i - 1].maxt

(***************************************************************************)
(* C4.  Range correctness: for any chunk state and any from < to, the      *)
(* FORWARD Iterator over [from, to) emits exactly the entries of the chunk *)
(* with from <= t < to that the pipeline accepts, each once and none       *)
(* missing, timestamp 0 included.  Stated here for chunks with the ordered *)
(* head block.                                                             *)
(***************************************************************************)
C4_ForwardRangeExact ==
    (last.op = "Iterator" /\ last.dir = "FORWARD" /\ IsOrderedFmt(c.headFmt)) =>
        SameEntries(last.out,
                    SelectSeq(Entries(c),
                              LAMBDA e : /\ last.from <= e.t /\ e.t < last.to
                                         /\ PipelineMatches(last.pipe, e)))

(***************************************************************************)
(* C5.  Rebound inclusivity: Rebound(a, b, filter) returns a chunk holding *)
(* exactly the entries of the original with a <= t <= b, in nanoseconds,   *)
(* that the filter does not reject (all of them when the filter is nil);   *)
(* it holds no entry with t > b or t < a.  Stated here for chunks with the *)
(* ordered head block.                                                     *)
(***************************************************************************)
C5_ReboundInclusive ==
    (last.op = "Rebound" /\ last.err = "nil" /\ IsOrderedFmt(c.headFmt)) =>
        SameEntries(Entries(last.res),
                    SelectSeq(Entries(c),
                              LAMBDA e : /\ last.from <= e.t /\ e.t <= last.to
                                         /\ ~FilterDrops(last.filter, e)))

(***************************************************************************)
(* C6.  After Close returns nil, and for every chunk Rebound returns, the  *)
(* head is empty and every sealed block starts no earlier than the block   *)
(* before it ended, whatever the head format and the order of the appends. *)
(***************************************************************************)
C6_ClosedBlocksAscend ==
    /\ (last.op = "Close" /\ last.err = "nil") =>
           hbIsEmpty(c.head) /\ Ascending(c.blocks)
    /\ (last.op = "Rebound" /\ last.err = "nil") =>
           hbIsEmpty(last.res.head) /\ Ascending(last.res.blocks)

C6_CloseReordered ==
    /\ last.op = "Close" /\ last.err = "nil"
    /\ ~Ascending(cut(prev).blocks)
    /\ Len(c.blocks) >= 2 /\ Ascending(c.blocks)
    /\ Size(c) = Size(prev)

Closed(ch) ==
    \* a chunk as Close leaves it: nothing in the head, blocks in order
    hbIsEmpty(ch.head) /\ IsOrdered(ch.blocks, 0)

RECURSIVE WithoutSizes(_)
WithoutSizes(blocks) ==
    \* the blocks with their uncompressed sizes left out
    IF blocks = <<>> THEN <<>>
    ELSE <<[Head(blocks) EXCEPT !.uncompressedSize = 0]>> \o WithoutSizes(Tail(blocks))

Reread(ch) == newByteChunk(writeTo(ch, FALSE).bytes, ch.blockSize, ch.targetSize, FALSE)

RoundTripBut(sizes) ==
    \* what the round trip keeps; sizes says whether the blocks' uncompressed
    \* sizes are among it
    (last.op = "NewByteChunk" /\ last.corrupt = 0 /\ Closed(c)) =>
        /\ last.err = "nil"
        /\ Len(last.res.blocks) = Len(c.blocks)
        /\ WithoutSizes(last.res.blocks) = WithoutSizes(c.blocks)
        /\ sizes => last.res.blocks = c.blocks
        /\ Size(last.res) = Size(c)
        /\ Bounds(last.res) = Bounds(c)
        /\ last.res.encoding = c.encoding
        /\ last.res.format = c.format
        /\ writeTo(last.res, FALSE).bytes = last.bytes

(***************************************************************************)
(* C7 as stated.  Round trip: for a chunk C produced by Appends followed   *)
(* by Close, NewByteChunk(WriteTo(C)) has the same sealed blocks (count,   *)
(* per-block entry count, mint, maxt, uncompressed size, payload), the     *)
(* same Size(), Bounds(), encoding and format as C, and writing the reread *)
(* chunk again gives the bytes of the first serialization.                 *)
(***************************************************************************)
C7_RoundTripAllFormats == RoundTripBut(TRUE)

(***************************************************************************)
(* C7 amended.  The same round trip, with the blocks' uncompressed sizes   *)
(* kept only by format v3: a reread v1 or v2 chunk has the same block      *)
(* count, entry counts, mint, maxt, offsets and payloads, and uncompressed *)
(* size 0 in every block.                                                  *)
(***************************************************************************)
C7_RoundTrip ==
    /\ RoundTripBut(c.format >= chunkFormatV3)
    /\ (last.op = "NewByteChunk" /\ last.corrupt = 0 /\ Closed(c)
            /\ c.format < chunkFormatV3) =>
           \A i \in DOMAIN last.res.blocks : last.res.blocks[i].uncompressedSize = 0

C7_RereadThreeBlocks ==
    /\ last.op = "NewByteChunk" /\ last.corrupt = 0 /\ Closed(c)
    /\ last.err = "nil"
    /\ Len(last.res.blocks) = 3
    /\ c.format = chunkFormatV2
    /\ c.blocks[1].mint < c.blocks[3].maxt

RECURSIVE RemoveAt(_, _)
RemoveAt(s, k) ==
    IF k = 1 THEN Tail(s) ELSE <<Head(s)>> \o RemoveAt(Tail(s), k - 1)

(***************************************************************************)
(* C8.  CRC skipping: when the payload of exactly one sealed block is      *)
(* altered in the serialized bytes, so that its stored CRC no longer       *)
(* matches, and the meta section is intact, NewByteChunk succeeds; the     *)
(* chunk it returns holds every other block unchanged and in order, omits  *)
(* exactly the altered block, and its Size() is the Size() of what was     *)
(* serialized minus that block's entry count.                              *)
(***************************************************************************)
C8_CRCSkipping ==
    (last.op = "NewByteChunk" /\ last.corrupt > 0) =>
        /\ last.err = "nil"
        /\ last.res.blocks = RemoveAt(Reread(c).c.blocks, last.corrupt)
        /\ WithoutSizes(last.res.blocks)
             = WithoutSizes(RemoveAt(c.blocks, last.corrupt))
        /\ Size(last.res)
             = SumEntries(c.blocks) - c.blocks[last.corrupt].numEntries
        /\ hbIsEmpty(c.head) =>
               Size(last.res) = Size(c) - c.blocks[last.corrupt].numEntries

C8_MiddleBlockSkipped ==
    /\ last.op = "NewByteChunk" /\ last.corrupt = 2
    /\ Len(c.blocks) = 3 /\ hbIsEmpty(c.head)
    /\ last.err = "nil"
    /\ Len(last.res.blocks) = 2
    /\ last.res.blocks[1].b = c.blocks[1].b
    /\ last.res.blocks[2].b = c.blocks[3].b

(***************************************************************************)
(* C9 as stated.  With targetSize = 0, SpaceFor admits entries only while  *)
(* fewer than 10 sealed blocks exist; so a chunk to which every Append is  *)
(* made only after SpaceFor returned true never holds more than 10 sealed  *)
(* blocks in any reachable state, after Close included.                    *)
(***************************************************************************)
C9_AtMostTenBlocks ==
    (admit /\ c.targetSize = 0) =>
        /\ Len(c.blocks) <= blocksPerChunk
        /\ SpaceFor(c, LineA) <=> Len(c.blocks) < blocksPerChunk

(***************************************************************************)
(* C9 amended.  With targetSize = 0, SpaceFor admits entries exactly while *)
(* fewer than 10 sealed blocks exist; a chunk to which every Append is     *)
(* made only after SpaceFor returned true holds at most 10 sealed blocks   *)
(* for as long as no Close has rebuilt it.  A Close that finds the blocks  *)
(* out of order cuts the sorted entries anew and is not held to 10.        *)
(***************************************************************************)
C9_AtMostTenBlocksUnlessRebuilt ==
    (admit /\ c.targetSize = 0) =>
        /\ ~rebuilt => Len(c.blocks) <= blocksPerChunk
        /\ SpaceFor(c, LineA) <=> Len(c.blocks) < blocksPerChunk

C9_TenBlocksFull ==
    /\ admit /\ c.targetSize = 0 /\ ~rebuilt
    /\ last.op = "Append" /\ last.err = "nil"
    /\ Len(prev.blocks) = blocksPerChunk - 1
    /\ Len(c.blocks) = blocksPerChunk
    /\ ~SpaceFor(c, LineA)

(***************************************************************************)
(* C10.  With targetSize > 0, when every Append is made only after         *)
(* SpaceFor returned true for the entry, the chunk stays below its target: *)
(* in every reachable state the compressed bytes of the sealed blocks plus *)
(* the uncompressed bytes of the head, which is what CompressedSize()      *)
(* reports before any serialization for a format below v4, is less than    *)
(* targetSize.  Stated here for chunks that store their blocks             *)
(* uncompressed.                                                           *)
(***************************************************************************)
C10_BelowTarget ==
    (/\ admit /\ c.targetSize > 0 /\ c.format < chunkFormatV4
     /\ c.compressedSize = 0 /\ c.encoding = EncNone) =>
        CompressedSize(c) < c.targetSize

(***************************************************************************)
(* C11 as stated.  Space admission monotonicity: once SpaceFor has         *)
(* returned false for a chunk, CompressedSize() never decreases across any *)
(* further successful Append, an Append that cuts a block included.        *)
(***************************************************************************)
C11_CompressedSizeMonotone ==
    (last.op = "Append" /\ last.err = "nil" /\ ~admit) =>
        CompressedSize(c) >= CompressedSize(prev)

(***************************************************************************)
(* C11 amended.  Once SpaceFor has returned false for a chunk, no further  *)
(* successful Append lowers the compressed bytes of the sealed blocks      *)
(* (cutBlockSize), and CompressedSize() does not decrease across an Append *)
(* that cuts no block or across any Append to a chunk that stores its      *)
(* blocks uncompressed.  An Append that cuts a compressed block replaces   *)
(* the head's uncompressed bytes by the block's compressed length and may  *)
(* lower CompressedSize().                                                 *)
(***************************************************************************)
C11_MonotoneWithoutCompression ==
    (last.op = "Append" /\ last.err = "nil" /\ ~admit) =>
        /\ c.cutBlockSize >= prev.cutBlockSize
        /\ (Len(c.blocks) = Len(prev.blocks) \/ c.encoding = EncNone) =>
               CompressedSize(c) >= CompressedSize(prev)

C11_CutAfterRefusal ==
    /\ last.op = "Append" /\ last.err = "nil" /\ ~admit
    /\ ~last.spaceFor
    /\ Len(prev.blocks) >= 1
    /\ Len(c.blocks) = Len(prev.blocks) + 1
    /\ c.cutBlockSize > prev.cutBlockSize

(***************************************************************************)
(* C12.  An Append that returns ErrOutOfOrder leaves the chunk as it was:  *)
(* the sealed blocks, the head's entries, size and bounds, Size(),         *)
(* Bounds(), BlockCount() and cutBlockSize are what they were before the   *)
(* call.                                                                   *)
(***************************************************************************)
C12_RefusedAppendChangesNothing ==
    (last.op = "Append" /\ last.err = "ErrOutOfOrder") =>
        /\ c.blocks = prev.blocks
        /\ c.head = prev.head
        /\ Size(c) = Size(prev)
        /\ Bounds(c) = Bounds(prev)
        /\ BlockCount(c) = BlockCount(prev)
        /\ c.cutBlockSize = prev.cutBlockSize
        /\ c = prev

C12_RefusedWithHeadAndBlock ==
    /\ last.op = "Append" /\ last.err = "ErrOutOfOrder"
    /\ Len(c.blocks) >= 1 /\ ~hbIsEmpty(c.head)
    /\ last.t < c.head.maxt
    /\ c = prev

NonDecreasing(es) == \A i \in 1..(Len(es) - 1) : es[i].t <= es[i + 1].t

WholeChunk(ch, from, to) ==
    \* [from, to) leaves out no entry of ch
    \A i \in DOMAIN Entries(ch) : from <= Entries(ch)[i].t /\ Entries(ch)[i].t < to

(***************************************************************************)
(* C13.  Ordering under ordered head: for a chunk with the ordered head    *)
(* format, in any state reached by Appends with or without Close, the      *)
(* FORWARD Iterator over the whole chunk emits entries with non-decreasing *)
(* timestamps.                                                             *)
(***************************************************************************)
C13_ForwardNonDecreasing ==
    (/\ last.op = "Iterator" /\ last.dir = "FORWARD"
     /\ IsOrderedFmt(c.headFmt) /\ WholeChunk(c, last.from, last.to)) =>
        NonDecreasing(last.out)

C13_ForwardOverBlocksAndHead ==
    /\ last.op = "Iterator" /\ last.dir = "FORWARD"
    /\ IsOrderedFmt(c.headFmt) /\ WholeChunk(c, last.from, last.to)
    /\ Len(c.blocks) = 2 /\ ~hbIsEmpty(c.head)
    /\ Len(last.out) = 3
    /\ last.out[1].t < last.out[2].t /\ last.out[2].t < last.out[3].t

BlocksSorted(ch) ==
    \* every sealed block holds its entries in timestamp order
    \A i \in DOMAIN ch.blocks :
        NonDecreasing(bufferedIterator(ch.encoding, ch.blocks[i].b))

C15_S1TenBlocks ==
    (appended = S1Entries /\ last.op = "Close") => BlockCount(c) = 10

(***************************************************************************)
(* C15 amended.  After the appends of scenario S1 and Close, the chunk has *)
(* exactly 1 sealed block: the 100 lines are 292 bytes together, which is  *)
(* below the block size, so no Append cuts and Close seals the whole head. *)
(* The block holds the 100 entries, with bounds 1 and 100.                 *)
(***************************************************************************)
C15_S1OneBlock ==
    /\ (last.op = "Append") => (last.err = "nil" /\ BlockCount(c) = 0)
    /\ (appended = S1Entries /\ last.op = "Close") =>
           /\ last.err = "nil"
           /\ BlockCount(c) = 1
           /\ c.blocks[1].uncompressedSize = 292
           /\ Size(c) = S1Entries
           /\ Bounds(c) = <<1, S1Entries>>

C15_S1Closed ==
    /\ appended = S1Entries /\ last.op = "Close" /\ last.err = "nil"
    /\ Size(c) = 100 /\ Len(prev.head.entries) = 100
    /\ prev.head.entries[100] = Entry(100, <<101, 49, 48, 48>>)

(***************************************************************************)
(* C16.  Bounds() of a non-empty chunk is the smallest and the largest     *)
(* timestamp among all entries held in the sealed blocks and the head,     *)
(* after any sequence of successful Appends and cuts and for every         *)
(* timestamp value, 0 and negative values included; in particular the      *)
(* ordered head's mint and maxt are the smallest and largest timestamp it  *)
(* holds.  Stated here for chunks with the ordered head block.             *)
(***************************************************************************)
C16_BoundsAreMinMax ==
    (IsOrderedFmt(c.headFmt) /\ ~Crashed /\ Entries(c) # <<>>) =>
        /\ Bounds(c) = <<MinTs(Entries(c)), MaxTs(Entries(c))>>
        /\ ~hbIsEmpty(c.head) =>
               /\ c.head.mint = MinTs(c.head.entries)
               /\ c.head.maxt = MaxTs(c.head.entries)

(***************************************************************************)
(* C17.  Every sealed block produced by cut is non-empty (numEntries >= 1) *)
(* and has maxt >= mint; cutting an empty head adds no block and changes   *)
(* nothing.                                                                *)
(***************************************************************************)
C17_BlocksNonEmpty ==
    /\ \A i \in DOMAIN c.blocks :
           /\ c.blocks[i].numEntries >= 1
           /\ c.blocks[i].numEntries
                = Len(bufferedIterator(c.encoding, c.blocks[i].b))
           /\ c.blocks[i].maxt >= c.blocks[i].mint
    /\ hbIsEmpty(c.head) => cut(c) = c
    /\ (last.op = "Close" /\ hbIsEmpty(prev.head) /\ IsOrdered(prev.blocks, 0)) =>
           c = prev

C17_EmptyHeadClosed ==
    /\ last.op = "Close" /\ last.err = "nil"
    /\ hbIsEmpty(prev.head) /\ Len(prev.blocks) = 2
    /\ c = prev
    /\ c.blocks[1].numEntries = 2 /\ c.blocks[1].maxt > c.blocks[1].mint

(***************************************************************************)
(* C18.  WriteTo never cuts or alters the head and never includes head     *)
(* data: the bytes written depend only on the format, the encoding and the *)
(* sealed blocks, so two chunks that differ only in what their heads hold  *)
(* serialize identically, and the head's entries, size and bounds are the  *)
(* same before and after the call.                                         *)
(***************************************************************************)
C18_WriteToLeavesHead ==
    (last.op = "WriteTo") =>
        /\ c.head = prev.head
        /\ BlockCount(c) = BlockCount(prev)
        /\ \A i \in DOMAIN c.blocks :
               [c.blocks[i] EXCEPT !.offset = 0] = [prev.blocks[i] EXCEPT !.offset = 0]
        /\ last.bytes = writeTo([prev EXCEPT !.head = EmptyHead], FALSE).bytes
        /\ last.bytes
             = writeTo([prev EXCEPT !.head =
                           HeadAppend(prev.headFmt, prev.head, MaxT, LineBB).hb],
                       FALSE).bytes
        /\ Size(newByteChunk(last.bytes, c.blockSize, c.targetSize, FALSE).c)
             = SumEntries(prev.blocks)

C18_WrittenWithHead ==
    /\ last.op = "WriteTo"
    /\ Len(prev.blocks) = 2 /\ ~hbIsEmpty(prev.head)
    /\ c.head = prev.head
    /\ Size(newByteChunk(last.bytes, c.blockSize, c.targetSize, FALSE).c)
         = Size(c) - 1

(***************************************************************************)
(* C19.  Iterator snapshot: the entries an iterator emits are exactly      *)
(* those present in the chunk (sealed blocks and head, within the range)   *)
(* when the iterator was constructed, whatever Appends, cuts and head      *)
(* resets come between the construction and the calls of Next.             *)
(***************************************************************************)
InRange(es, from, to) == SelectSeq(es, LAMBDA e : from <= e.t /\ e.t < to)

C19_EmitsWhatWasPresent ==
    inFlight.done => SameEntries(inFlight.emitted, InRange(Entries(inFlight.c), SnapshotFrom, inFlight.to))

\* The part of C19 about interleaving: an iterator returns, entry by entry,
\* what it would have returned had it been drained where it was constructed.
SnapshotStable ==
    /\ inFlight.open =>
          /\ Len(inFlight.emitted) <= Len(inFlight.snap)
          /\ inFlight.emitted = SubSeq(inFlight.snap, 1, Len(inFlight.emitted))
    /\ inFlight.done => inFlight.emitted = inFlight.snap

SnapshotOverwritten ==
    \* the head was reset and its first slot written again under an iterator
    \* that had captured it, and the iterator has returned its head entry
    /\ inFlight.done
    /\ inFlight.c.head.entries # <<>>
    /\ inFlight.arr # inFlight.c.head.entries
    /\ Len(inFlight.emitted) > Len(BlockEntries(inFlight.c.encoding, inFlight.c.blocks))

(***************************************************************************)
(* C20.  SerializeForCheckpointTo writes the complete head checkpoint      *)
(* before any byte of the chunk and writes nothing to the chunk writer     *)
(* when the head checkpoint fails; in the bytes of a v4 chunk the symbol   *)
(* table section ends before the first sealed block begins; every symbol   *)
(* the checkpointed head refers to is in the checkpointed symbol table.    *)
(***************************************************************************)
HeaderLen == 6

LabelsLen(b) == BEValue(Slice(b, Len(b) - 32, Len(b) - 24))

LabelsOffset(b) == BEValue(Slice(b, Len(b) - 24, Len(b) - 16))

SymbolCount(b) == UvarintAt(b, LabelsOffset(b)).v

C20_HeadCheckpointFirst ==
    /\ ckpt.chk # <<>> =>
          /\ ckpt.err = "nil"
          /\ ckpt.head # <<>>
          /\ ckpt.head = ckpt.headWhole
          /\ \A r \in ckpt.headRefs : r < SymbolCount(ckpt.chk)
    /\ ckpt.err # "nil" => ckpt.chk = <<>>
    /\ last.op = "writeTo" =>
          /\ LabelsOffset(ckpt.chk) = HeaderLen
          /\ \A i \in 1..Len(c.blocks) :
                LabelsOffset(ckpt.chk) + LabelsLen(ckpt.chk) + 4 <= c.blocks[i].offset

C20_CheckpointAcrossAppend ==
    \* a checkpoint of a chunk with a sealed block and a head that refers to
    \* symbols, with a label added between the head and the chunk
    /\ last.op = "writeTo"
    /\ Len(c.blocks) >= 1
    /\ ckpt.headRefs # {}
    /\ SymbolCount(ckpt.chk) > ckpt.symsAtHead

C20_HeadCheckpointFailed ==
    ckpt.err # "nil" /\ ckpt.head # <<>> /\ ckpt.add # <<>>

(***************************************************************************)
(* C22 as stated.  The chunk Rebound returns has the original's codec,     *)
(* the original's block size (256 KiB when that is not set) and, as its    *)
(* target size, the original's CompressedSize().                           *)
(***************************************************************************)
C22_ReboundTargetIsCompressedSize ==
    (last.op = "Rebound" /\ last.err = "nil") =>
        /\ last.res.encoding = c.encoding
        /\ last.res.blockSize = (IF c.blockSize > 0 THEN c.blockSize ELSE defaultBlockSize)
        /\ last.res.targetSize = CompressedSize(c)

(***************************************************************************)
(* C22, amended.  The chunk Rebound returns has the original's codec; when *)
(* the original's block size is set it has the original's block size and   *)
(* the original's target size; when it is not set it has a block size of   *)
(* 256 KiB and, as its target size, the original's CompressedSize().       *)
(***************************************************************************)
C22_ReboundSizes ==
    (last.op = "Rebound" /\ last.err = "nil") =>
        /\ last.res.encoding = c.encoding
        /\ last.res.blockSize = (IF c.blockSize > 0 THEN c.blockSize ELSE defaultBlockSize)
        /\ last.res.targetSize = (IF c.blockSize > 0 THEN c.targetSize
                                  ELSE CompressedSize(c))

C22_ReboundOfUnsetBlockSize ==
    /\ last.op = "Rebound" /\ last.err = "nil"
    /\ c.blockSize = 0
    /\ last.res.blockSize = defaultBlockSize
    /\ last.res.targetSize > 0
    /\ Size(last.res) >= 2

(***************************************************************************)
(* C24.  Rebound returns ErrSliceNoDataInRange, and no chunk, exactly when *)
(* no entry of the original lies in [start, end] and passes the filter;    *)
(* whenever an entry survives it returns a chunk and no error.             *)
(***************************************************************************)
Survivors(ch, start, end, filter) ==
    SelectSeq(Entries(ch), LAMBDA e : /\ start <= e.t /\ e.t <= end
                                      /\ ~FilterDrops(filter, e))

C24_NoDataExactly ==
    last.op = "Rebound" =>
        IF Survivors(c, last.from, last.to, last.filter) = <<>>
        THEN last.err = "ErrSliceNoDataInRange" /\ last.res = NoChunk
        ELSE last.err = "nil" /\ last.res # NoChunk

(***************************************************************************)
(* C27.  The compressedSize field, when it is not zero, is the byte length *)
(* of the most recent serialization: it starts at zero, only WriteTo sets  *)
(* it to a non-zero value, and that value is the length of the bytes       *)
(* written (any other change is a Close that replaced the chunk by a       *)
(* rebuilt one, with the field zero); after WriteTo CompressedSize() is    *)
(* the number of bytes written and after NewByteChunk(b) it is len(b).     *)
(***************************************************************************)
C27_CompressedSizeIsLastSerialized ==
    /\ [](/\ (last.op = "New" => c.compressedSize = 0)
          /\ (last.op = "WriteTo" =>
                 /\ Len(last.bytes) > 0
                 /\ c.compressedSize = Len(last.bytes)
                 /\ CompressedSize(c) = Len(last.bytes))
          /\ ((last.op = "NewByteChunk" /\ last.err = "nil") =>
                 CompressedSize(last.res) = Len(last.bytes)))
    /\ [][c'.compressedSize # c.compressedSize =>
              \/ last'.op = "WriteTo"
              \/ (last'.op = "Close" /\ c'.compressedSize = 0)]_vars

C27_WrittenThenAppended ==
    \* an Append after a WriteTo: the field still holds the written length
    /\ last.op = "Append" /\ last.err = "nil"
    /\ c.compressedSize # 0
    /\ c.compressedSize = prev.compressedSize
    /\ Len(c.blocks) >= 2

(***************************************************************************)
(* SpecRead: chunks of every format are filled, written, and read back     *)
(* from the written bytes with one byte of the header, of a section or of  *)
(* a block altered.                                                        *)
(***************************************************************************)
MaxReadAppends == 3

ReadTimes == 1..2

ReadConfigs ==
    \* <<format, encoding, head format, blockSize, targetSize>>
    { <<chunkFormatV1, EncGZIP, OrderedHeadBlockFmt,   2, 0>>,
      <<chunkFormatV2, EncNone, OrderedHeadBlockFmt,   2, 0>>,
      <<chunkFormatV3, EncGZIP, UnorderedHeadBlockFmt, 2, 0>>,
      <<chunkFormatV4, EncNone, UnorderedWithNonIndexedLabelsHeadBlockFmt, 2, 0>>,
      <<chunkFormatV4, EncGZIP, UnorderedWithNonIndexedLabelsHeadBlockFmt, 2, 0>> }

SectionBytes(s) == s.offset .. (s.offset + s.len + 3)
    \* the positions of a section and of the checksum after it

MetasSection(b) ==
    IF b[5] >= chunkFormatV4 THEN readSectionLenAndOffset(b, chunkMetasSectionIdx)
    ELSE With(BEValue(Slice(b, Len(b) - 8, Len(b))), LAMBDA metasOffset :
             [len |-> (Len(b) - (8 + 4)) - metasOffset, offset |-> metasOffset])

Damages(ch, b) ==
    \* <<what is altered, the position of the byte, its new value>>
    {<<"none", 0, b[1]>>}
    \cup {<<"magic", p, (b[p + 1] + 1) % 256>> : p \in 0..3}
    \cup {<<"version", 4, v>> : v \in {0, 5, 255}}
    \cup (IF ch.format >= chunkFormatV2
          THEN {<<"encoding", 5, e>> : e \in {10, 255}} ELSE {})
    \cup {<<"meta", p, (b[p + 1] + 1) % 256>> : p \in SectionBytes(MetasSection(b))}
    \cup (IF ch.format >= chunkFormatV4
          THEN {<<"symbols", p, (b[p + 1] + 1) % 256>> :
                  p \in SectionBytes(readSectionLenAndOffset(b, chunkNonIndexedLabelsSectionIdx))}
          ELSE {})
    \cup UNION {{<<"block", p, (b[p + 1] + 1) % 256>> :
                   p \in ch.blocks[k].offset .. (ch.blocks[k].offset + Len(ch.blocks[k].b) + 3)} :
                k \in 1..Len(ch.blocks)}

InitRead ==
    /\ \E cfg \in ReadConfigs :
         c = newMemChunkWithFormat(cfg[1], cfg[2], cfg[3], cfg[4], cfg[5])
    /\ last = NoOp
    /\ prev = NoChunk
    /\ admit = TRUE
    /\ appended = 0
    /\ rebuilt = FALSE
    /\ inFlight = NoIterator
    /\ ckpt = NoCheckpoint

DoAppendEntry ==
    /\ ~Observed
    /\ appended < MaxReadAppends
    /\ \E t \in ReadTimes, lbl \in Labels :
         LET r == ChunkAppendEntry(c, t, LineA, lbl)
         IN  /\ c' = r.c
             /\ last' = [NoOp EXCEPT !.op = "Append", !.t = t, !.line = LineA,
                                     !.err = r.err]
    /\ appended' = appended + 1
    /\ prev' = c
    /\ UNCHANGED <<admit, rebuilt, inFlight, ckpt>>

DoNewByteChunkDamaged ==
    /\ last.op = "WriteTo"
    /\ \E d \in Damages(c, last.bytes) :
         LET bytes == [last.bytes EXCEPT ![d[2] + 1] = d[3]]
             r     == newByteChunk(bytes, c.blockSize, c.targetSize, FALSE)
         IN  last' = [NoOp EXCEPT !.op = "NewByteChunk", !.damage = d[1],
                                  !.corrupt = d[2], !.bytes = bytes,
                                  !.err = r.err, !.res = r.c]
    /\ prev' = c
    /\ UNCHANGED <<c, admit, appended, rebuilt, inFlight, ckpt>>

NextRead ==
    \/ DoAppendEntry
    \/ DoWriteTo
    \/ DoNewByteChunkDamaged

SpecRead == InitRead /\ [][NextRead]_vars

(***************************************************************************)
(* C26: reading a chunk of format v2 or later whose codec byte is not one  *)
(* of the codecs 0..9 is rejected: NewByteChunk returns an error and no    *)
(* chunk.                                                                  *)
(***************************************************************************)
C26_UnknownCodecRejected ==
    (last.op = "NewByteChunk" /\ last.damage = "encoding")
        => (last.err # "nil" /\ last.res = NoChunk)

(***************************************************************************)
(* C25: on read, a meta section whose checksum does not match and, in v4,  *)
(* a symbol table section whose checksum does not match make NewByteChunk  *)
(* fail with ErrInvalidChecksum; an unknown magic number or version makes  *)
(* it fail; no chunk is returned in these cases.  A block whose checksum   *)
(* does not match never makes it fail.                                     *)
(***************************************************************************)
C25_FatalAndSkippedDamage ==
    last.op = "NewByteChunk"
        => /\ last.damage \in {"meta", "symbols"}
                => (last.err = "ErrInvalidChecksum" /\ last.res = NoChunk)
           /\ last.damage \in {"magic", "version"}
                => (last.err # "nil" /\ last.res = NoChunk)
           /\ last.damage = "block"
                => (last.err = "nil" /\ last.res # NoChunk)

C25_SymbolsDamaged ==
    /\ last.op = "NewByteChunk"
    /\ last.damage = "symbols"
    /\ last.err = "ErrInvalidChecksum"
    /\ c.symbolizer # <<>>
    /\ Len(c.blocks) >= 1

(***************************************************************************)
(* SpecLabels: chunks of format v4 whose entries carry a label (and a v3   *)
(* chunk for comparison) are filled, possibly stored and loaded again, and *)
(* rebound.                                                                *)
(***************************************************************************)
LabelsConfigs ==
    \* <<format, encoding, head format, blockSize, targetSize>>
    { <<chunkFormatV4, EncNone, UnorderedWithNonIndexedLabelsHeadBlockFmt, 2, 0>>,
      <<chunkFormatV4, EncGZIP, UnorderedWithNonIndexedLabelsHeadBlockFmt, 2, 0>>,
      <<chunkFormatV3, EncGZIP, UnorderedHeadBlockFmt, 2, 0>> }

InitLabels ==
    /\ \E cfg \in LabelsConfigs :
         c = newMemChunkWithFormat(cfg[1], cfg[2], cfg[3], cfg[4], cfg[5])
    /\ last = NoOp
    /\ prev = NoChunk
    /\ admit = TRUE
    /\ appended = 0
    /\ rebuilt = FALSE
    /\ inFlight = NoIterator
    /\ ckpt = NoCheckpoint

DoLoad ==
    \* the chunk is written and read back: the sealed blocks without the head
    /\ last.op = "Append"
    /\ LET w == writeTo(c, FALSE)
           r == newByteChunk(w.bytes, c.blockSize, c.targetSize, FALSE)
       IN  /\ c' = r.c
           /\ last' = [NoOp EXCEPT !.op = "NewByteChunk", !.bytes = w.bytes,
                                   !.err = r.err, !.res = r.c]
    /\ prev' = c
    /\ UNCHANGED <<admit, appended, rebuilt, inFlight, ckpt>>

DoReboundLabels ==
    /\ last.op \in {"Append", "NewByteChunk"}
    /\ \E from \in ReadTimes, filter \in Filters :
         LET r == Rebound(c, from, 2, filter)
         IN  last' = [NoOp EXCEPT !.op = "Rebound", !.from = from, !.to = 2,
                                  !.filter = filter, !.err = r.err, !.res = r.c]
    /\ prev' = c
    /\ UNCHANGED <<c, admit, appended, rebuilt, inFlight, ckpt>>

NextLabels ==
    \/ DoAppendEntry
    \/ DoLoad
    \/ DoReboundLabels

SpecLabels == InitLabels /\ [][NextLabels]_vars

BagOf(it) ==
    \* how often each entry occurs
    [x \in {it[k] : k \in 1..Len(it)} |-> Cardinality({k \in 1..Len(it) : it[k] = x})]

WithLabels(it) ==
    \* the entries of an iterator that keeps non-indexed labels, each as
    \* <<timestamp, line, labels>>
    [k \in 1..Len(it) |->
        <<it[k].t, it[k].s, IF "lbls" \in DOMAIN it[k] THEN it[k].lbls ELSE <<>> >>]

WithoutLabels(it) == [k \in 1..Len(it) |-> <<it[k].t, it[k].s>>]

Kept(ch, start, end, filter) ==
    \* what Rebound's iterator hands out and its filter keeps
    SelectSeq(Iterator(ch, start, end + Millisecond, "FORWARD", "noop"),
              LAMBDA e : ~FilterDrops(filter, e))

Stored(ch) == Iterator(ch, 0, MaxT + Millisecond, "FORWARD", "noop")

(***************************************************************************)
(* C23: every entry that survives Rebound is stored in the new chunk as it *)
(* was in the original: the same timestamp, the same line and, for a v4    *)
(* original, the same structured labels.                                   *)
(***************************************************************************)
C23_SurvivorsIdentical ==
    (last.op = "Rebound" /\ last.err = "nil")
        => BagOf(WithLabels(Stored(last.res)))
               = BagOf(WithLabels(Kept(c, last.from, last.to, last.filter)))

C23_LinesIdentical ==
    (last.op = "Rebound" /\ last.err = "nil")
        => BagOf(WithoutLabels(Stored(last.res)))
               = BagOf(WithoutLabels(Kept(c, last.from, last.to, last.filter)))

(***************************************************************************)
(* Loading a checkpoint.  headBlock.LoadBytes reads what CheckpointTo      *)
(* wrote; the unordered heads keep the same prefix and, in the head that   *)
(* keeps labels, each entry is followed by its symbol references.          *)
(***************************************************************************)
RECURSIVE LoadEntries(_, _, _, _)
LoadEntries(db, ln, withSyms, es) ==
    IF ln = 0 \/ db.bad THEN [db |-> db, es |-> es]
    ELSE With(dbVarint64(db), LAMBDA t :
         With(dbUvarint(t.db), LAMBDA lineLn :
         With(lineLn.db.pos + lineLn.v, LAMBDA after :
         With(IF withSyms THEN dbUvarint([lineLn.db EXCEPT !.pos = after])
              ELSE [v |-> 0, db |-> [lineLn.db EXCEPT !.pos = after]], LAMBDA n :
         With(SymbolPairsAt(db.b, n.db.pos, n.v), LAMBDA p :
             IF lineLn.db.bad \/ after > Len(db.b) \/ n.db.bad \/ ~p.ok
             THEN [db |-> [db EXCEPT !.bad = TRUE], es |-> es]
             ELSE LoadEntries([n.db EXCEPT !.pos = p.at], ln - 1, withSyms,
                              Append(es, IF withSyms
                                         THEN [t |-> t.v, s |-> Slice(db.b, lineLn.db.pos, after),
                                               syms |-> p.refs]
                                         ELSE Entry(t.v, Slice(db.b, lineLn.db.pos, after)))))))))

LoadBytesForgetsBounds(b, withSyms) ==
    \* LoadBytes leaving mint and maxt of the loaded head at zero
    IF Len(b) < 1 THEN [err |-> "nil", hb |-> EmptyHead]
    ELSE IF ~withSyms /\ b[1] \notin {chunkFormatV1, chunkFormatV2, chunkFormatV3, chunkFormatV4}
    THEN [err |-> "incompatible headBlock version", hb |-> EmptyHead]
    ELSE With(dbUvarint([b |-> b, pos |-> 1, bad |-> FALSE]), LAMBDA ln :
         With(dbUvarint(ln.db), LAMBDA size :
         With(dbVarint64(size.db), LAMBDA mint :
         With(dbVarint64(mint.db), LAMBDA maxt :
             IF maxt.db.bad THEN [err |-> "verifying headblock metadata", hb |-> EmptyHead]
             ELSE With(LoadEntries(maxt.db, ln.v, withSyms, <<>>), LAMBDA r :
                      IF r.db.bad THEN [err |-> "decoding entries", hb |-> EmptyHead]
                      ELSE [err |-> "nil",
                            hb  |-> [entries |-> r.es, size |-> size.v,
                                     mint |-> 0, maxt |-> 0]])))))

LoadBytes(b, withSyms) ==
    IF Len(b) < 1 THEN [err |-> "nil", hb |-> EmptyHead]
    ELSE IF ~withSyms /\ b[1] \notin {chunkFormatV1, chunkFormatV2, chunkFormatV3, chunkFormatV4}
    THEN [err |-> "incompatible headBlock version", hb |-> EmptyHead]
    ELSE With(dbUvarint([b |-> b, pos |-> 1, bad |-> FALSE]), LAMBDA ln :
         With(dbUvarint(ln.db), LAMBDA size :
         With(dbVarint64(size.db), LAMBDA mint :
         With(dbVarint64(mint.db), LAMBDA maxt :
             IF maxt.db.bad THEN [err |-> "verifying headblock metadata", hb |-> EmptyHead]
             ELSE With(LoadEntries(maxt.db, ln.v, withSyms, <<>>), LAMBDA r :
                      IF r.db.bad THEN [err |-> "decoding entries", hb |-> EmptyHead]
                      ELSE [err |-> "nil",
                            hb  |-> [entries |-> r.es, size |-> size.v,
                                     mint |-> mint.v, maxt |-> maxt.v]])))))

RECURSIVE ConvertLoop(_, _, _)
ConvertLoop(es, version, out) ==
    IF es = <<>> THEN out
    ELSE ConvertLoop(Tail(es), version,
                     IF version = UnorderedWithNonIndexedLabelsHeadBlockFmt
                     THEN uhbAppendLabels(out, Head(es).t, Head(es).s, <<>>).hb
                     ELSE uhbAppend(out, Head(es).t, Head(es).s).hb)

Convert(hb, version) ==
    \* headBlock.Convert: the ordered head as it is, or its entries appended
    \* to a new head of the unordered format asked for
    IF version < UnorderedHeadBlockFmt THEN [hb |-> hb, fmt |-> OrderedHeadBlockFmt]
    ELSE [hb |-> ConvertLoop(hb.entries, version, NewBlock(version)), fmt |-> version]

HeadFromCheckpoint(b, desiredIfNotUnordered, symbolizer) ==
    \* the head a checkpoint holds, of the format its first byte names; an
    \* ordered head is converted when another format is asked for
    IF Len(b) = 0
    THEN [err |-> "nil", hb |-> NewBlock(desiredIfNotUnordered), fmt |-> desiredIfNotUnordered]
    ELSE IF b[1] > UnorderedWithNonIndexedLabelsHeadBlockFmt
    THEN [err |-> "unexpected head block version", hb |-> EmptyHead, fmt |-> 0]
    ELSE With(LoadBytes(b, b[1] = UnorderedWithNonIndexedLabelsHeadBlockFmt), LAMBDA r :
             IF r.err # "nil" THEN [err |-> r.err, hb |-> EmptyHead, fmt |-> 0]
             ELSE IF IsOrderedFmt(b[1]) /\ desiredIfNotUnordered # OrderedHeadBlockFmt
             THEN With(Convert(r.hb, desiredIfNotUnordered), LAMBDA cv :
                      [err |-> "nil", hb |-> cv.hb, fmt |-> cv.fmt])
             ELSE [err |-> "nil", hb |-> r.hb,
                   fmt |-> IF IsOrderedFmt(b[1]) THEN OrderedHeadBlockFmt ELSE b[1]])

MemchunkFromCheckpoint(chk, head, desiredIfNotUnordered, blockSize, targetSize) ==
    With(newByteChunk(chk, blockSize, targetSize, TRUE), LAMBDA mc :
        IF mc.err # "nil" THEN [err |-> mc.err, c |-> NoChunk]
        ELSE With(HeadFromCheckpoint(head, desiredIfNotUnordered, mc.c.symbolizer), LAMBDA h :
                 IF h.err # "nil" THEN [err |-> h.err, c |-> NoChunk]
                 ELSE [err |-> "nil", c |-> [mc.c EXCEPT !.head = h.hb, !.headFmt = h.fmt]]))

(***************************************************************************)
(* SpecRestore: a chunk is filled and possibly closed; at some point it is *)
(* checkpointed and a second chunk is built from the checkpoint.  From     *)
(* then on every operation is applied to both: to the chunk that goes on   *)
(* as if no checkpoint had been taken (c) and to the restored one          *)
(* (ckpt.mc).  A labels head in a chunk below v4, which only a rebuild of  *)
(* a v4 chunk produces, is not checkpointed.                               *)
(***************************************************************************)
MaxRestoreAppends == 4

RestoreConfigs ==
    \* <<format, encoding, head format, blockSize, targetSize>>
    { <<chunkFormatV2, EncGZIP, OrderedHeadBlockFmt,   2, 0>>,
      <<chunkFormatV3, EncNone, UnorderedHeadBlockFmt, 2, 0>>,
      <<chunkFormatV3, EncGZIP, OrderedHeadBlockFmt,   0, 0>>,
      <<chunkFormatV4, EncGZIP, UnorderedWithNonIndexedLabelsHeadBlockFmt, 2, 0>> }

InitRestore ==
    /\ \E cfg \in RestoreConfigs :
         c = newMemChunkWithFormat(cfg[1], cfg[2], cfg[3], cfg[4], cfg[5])
    /\ last = NoOp
    /\ prev = NoChunk
    /\ admit = TRUE
    /\ appended = 0
    /\ rebuilt = FALSE
    /\ inFlight = NoIterator
    /\ ckpt = NoCheckpoint

Restored == ckpt.pc = "restored"

DoAppendBefore ==
    /\ ~Restored
    /\ appended < MaxRestoreAppends
    /\ \E t \in ReadTimes, lbl \in Labels :
         LET r == ChunkAppendEntry(c, t, LineA, lbl)
         IN  /\ c' = r.c
             /\ last' = [NoOp EXCEPT !.op = "Append", !.t = t, !.line = LineA,
                                     !.err = r.err]
    /\ appended' = appended + 1
    /\ prev' = c
    /\ UNCHANGED <<admit, rebuilt, inFlight, ckpt>>

DoCloseBefore ==
    /\ ~Restored
    /\ last.op = "Append"
    /\ LET r == Close(c)
       IN  /\ c' = r.c
           /\ last' = [NoOp EXCEPT !.op = "Close", !.err = r.err]
    /\ prev' = c
    /\ UNCHANGED <<admit, appended, rebuilt, inFlight, ckpt>>

DoMemchunkFromCheckpoint ==
    \* SerializeForCheckpointTo into two buffers, MemchunkFromCheckpoint on them
    /\ ~Restored
    /\ c.format >= chunkFormatV4 \/ c.headFmt # UnorderedWithNonIndexedLabelsHeadBlockFmt
    /\ LET writes == hbCheckpointTo(c.headFmt, c.head)
           head   == Written(writes, Len(writes))
           chk    == writeTo(c, TRUE).bytes
           r      == MemchunkFromCheckpoint(chk, head, c.headFmt, c.blockSize, c.targetSize)
       IN  /\ ckpt' = [ckpt EXCEPT !.pc = "restored", !.err = r.err, !.head = head,
                                   !.chk = chk, !.mc = r.c]
           /\ last' = [NoOp EXCEPT !.op = "MemchunkFromCheckpoint", !.err = r.err,
                                   !.res = r.c]
    /\ prev' = c
    /\ UNCHANGED <<c, admit, appended, rebuilt, inFlight>>

DoAppendBoth ==
    /\ Restored
    /\ last.op \in {"MemchunkFromCheckpoint", "AppendBoth"}
    /\ appended < MaxRestoreAppends
    /\ \E t \in ReadTimes, lbl \in Labels :
         LET r == ChunkAppendEntry(c, t, LineA, lbl)
             m == ChunkAppendEntry(ckpt.mc, t, LineA, lbl)
         IN  /\ c' = r.c
             /\ ckpt' = [ckpt EXCEPT !.mc = m.c, !.err = m.err]
             /\ last' = [NoOp EXCEPT !.op = "AppendBoth", !.t = t, !.line = LineA,
                                     !.err = r.err]
    /\ appended' = appended + 1
    /\ prev' = c
    /\ UNCHANGED <<admit, rebuilt, inFlight>>

DoCloseBoth ==
    /\ Restored
    /\ last.op \in {"MemchunkFromCheckpoint", "AppendBoth"}
    /\ LET r == Close(c)
           m == Close(ckpt.mc)
       IN  /\ c' = r.c
           /\ ckpt' = [ckpt EXCEPT !.mc = m.c, !.err = m.err]
           /\ last' = [NoOp EXCEPT !.op = "CloseBoth", !.err = r.err]
    /\ prev' = c
    /\ UNCHANGED <<admit, appended, rebuilt, inFlight>>

DoWriteToBoth ==
    \* the first WriteTo of each of the two chunks
    /\ Restored
    /\ last.op \in {"MemchunkFromCheckpoint", "AppendBoth", "CloseBoth"}
    /\ LET w == writeTo(c, FALSE)
           m == writeTo(ckpt.mc, FALSE)
       IN  /\ c' = w.c
           /\ ckpt' = [ckpt EXCEPT !.mc = m.c, !.chk = m.bytes]
           /\ last' = [NoOp EXCEPT !.op = "WriteToBoth", !.bytes = w.bytes]
    /\ prev' = c
    /\ UNCHANGED <<admit, appended, rebuilt, inFlight>>

NextRestore ==
    \/ DoAppendBefore
    \/ DoCloseBefore
    \/ DoMemchunkFromCheckpoint
    \/ DoAppendBoth
    \/ DoCloseBoth
    \/ DoWriteToBoth

SpecRestore == InitRestore /\ [][NextRestore]_vars

Checkpointed(ch) == writeTo(ch, TRUE).c
    \* the original once SerializeForCheckpointTo has returned

RestoredAs(sizes) ==
    \* what the restored chunk has in common with the original; sizes says
    \* whether the blocks' uncompressed sizes are among it
    last.op = "MemchunkFromCheckpoint"
        => /\ last.err = "nil"
           /\ IF sizes THEN ckpt.mc.blocks = Checkpointed(c).blocks
              ELSE WithoutSizes(ckpt.mc.blocks) = WithoutSizes(Checkpointed(c).blocks)
           /\ ckpt.mc.head = c.head
           /\ ckpt.mc.headFmt = c.headFmt
           /\ Size(ckpt.mc) = Size(c)
           /\ Bounds(ckpt.mc) = Bounds(c)

SameFirstWrite ==
    /\ last.op \in {"AppendBoth", "CloseBoth"} => ckpt.err = last.err
    /\ last.op = "WriteToBoth" => ckpt.chk = last.bytes

(***************************************************************************)
(* C21: checkpoint equivalence.  The chunk that MemchunkFromCheckpoint     *)
(* builds from the two outputs of SerializeForCheckpointTo has the same    *)
(* sealed blocks and the same head entries, size and bounds as the         *)
(* original, and after the same operations its first WriteTo output is     *)
(* byte-identical to that of the chunk that was never checkpointed.        *)
(***************************************************************************)
C21_CheckpointEquivalence == RestoredAs(TRUE) /\ SameFirstWrite

C21_CheckpointEquivalenceButSizes ==
    /\ RestoredAs(c.format >= chunkFormatV3)
    /\ SameFirstWrite

C21_RestoredThenWritten ==
    /\ last.op = "WriteToBoth"
    /\ Len(c.blocks) >= 2
    /\ ckpt.head # <<>>
    /\ Len(ckpt.head) > 5
    /\ c.symbolizer # <<>>

(***************************************************************************)
(* The streaming block iterator, byte by byte (type bufferedIterator).     *)
(* si.stream is what the pooled reader has yet to hand out of the block's  *)
(* decompressed bytes; si.readBuf is readBuf[:readBufValid]; si.buf and    *)
(* si.symbolsBuf are the capacities of the pooled buffers, -1 for nil.     *)
(* binary.Uvarint returns width 0 when the bytes end inside the varint and *)
(* a negative width when the varint does not fit 64 bits.  A slice         *)
(* expression with a negative bound panics; a loop that can make no        *)
(* progress never returns ("hang").                                        *)
(***************************************************************************)
MaxVarintLen64 == 10

readBufLen == 20

maxLineLength == 1024 * 1024 * 1024

RECURSIVE binaryUvarintAt(_, _)
binaryUvarintAt(buf, i) ==
    IF i >= Len(buf) THEN [v |-> 0, n |-> 0]
    ELSE IF i = MaxVarintLen64 THEN [v |-> 0, n |-> 0 - (i + 1)]
    ELSE IF buf[i + 1] < 128
    THEN IF i = MaxVarintLen64 - 1 /\ buf[i + 1] > 1 THEN [v |-> 0, n |-> 0 - (i + 1)]
         ELSE [v |-> buf[i + 1], n |-> i + 1]
    ELSE With(binaryUvarintAt(buf, i + 1), LAMBDA r :
             IF r.n <= 0 THEN r ELSE [v |-> (buf[i + 1] - 128) + 128 * r.v, n |-> r.n])

binaryUvarint(buf) == binaryUvarintAt(buf, 0)

binaryVarint(buf) ==
    With(binaryUvarint(buf), LAMBDA r :
        [v |-> IF r.v % 2 = 1 THEN 0 - ((r.v + 1) \div 2) ELSE r.v \div 2, n |-> r.n])

RECURSIVE PoolCap(_)
PoolCap(n) ==
    \* the capacity of the buffer a size-classed pool hands out for size n
    IF n <= 1 THEN 1 ELSE 2 * PoolCap((n + 1) \div 2)

DecodeSymbolizer == << <<120>>, <<49>>, <<121>>, <<50>> >>

newBufferedIteratorAt(stream, format, maxRead, badReader) ==
    [stream |-> stream, format |-> format, maxRead |-> maxRead, badReader |-> badReader,
     symbolizer |-> DecodeSymbolizer, fault |-> "none",
     reader |-> FALSE, readBuf |-> <<>>, err |-> "nil", closed |-> FALSE,
     buf |-> -1, symbolsBuf |-> -1, ok |-> FALSE, emitted |-> <<>>,
     readerGets |-> 0, readerPuts |-> 0, lineGets |-> 0, linePuts |-> 0,
     symbolGets |-> 0, symbolPuts |-> 0]

readerRead(si, room) ==
    \* si.reader.Read(p) with len(p) = room: how many bytes, and whether EOF
    IF room = 0 THEN [n |-> 0, eof |-> FALSE]
    ELSE IF si.stream = <<>> THEN [n |-> 0, eof |-> TRUE]
    ELSE [n |-> MinOf(MinOf(room, Len(si.stream)), si.maxRead), eof |-> FALSE]

readBufFill(si, n) ==
    \* n bytes move from the reader into readBuf
    [si EXCEPT !.readBuf = @ \o SubSeq(si.stream, 1, n),
               !.stream = Slice(@, n, Len(@))]

siFail(si, err) == [si |-> [si EXCEPT !.err = err], st |-> "false"]

RECURSIVE ReadTsAndLen(_, _)
ReadTsAndLen(si, lastAttempt) ==
    \* for lWidth == 0: read until both varints have enough bytes
    With(readerRead(si, readBufLen - Len(si.readBuf)), LAMBDA rd :
    With(readBufFill(si, rd.n), LAMBDA s :
    With(binaryVarint(s.readBuf), LAMBDA t :
    With(IF t.n < 0 THEN t ELSE binaryUvarint(Slice(s.readBuf, t.n, Len(s.readBuf))), LAMBDA l :
        IF rd.eof /\ s.readBuf = <<>> THEN [si |-> s, st |-> "false"]
        ELSE IF rd.eof /\ Len(s.readBuf) = lastAttempt THEN siFail(s, "invalid data in chunk")
        ELSE IF t.n < 0 THEN [si |-> s, st |-> "panic"]
        ELSE IF l.n # 0 THEN [si |-> s, st |-> "ok", t |-> t, l |-> l]
        ELSE IF ~rd.eof /\ rd.n = 0 THEN [si |-> s, st |-> "hang"]
        ELSE ReadTsAndLen(s, Len(s.readBuf))))))

ReadLine(si, line, lineSize) ==
    \* for n < lineSize: each Read hands out some of the bytes that are
    \* missing, until the line is whole or the reader is at its end, which
    \* is io.EOF with no byte read
    With(lineSize - Len(line), LAMBDA need :
        IF Len(si.stream) >= need
        THEN [si |-> [si EXCEPT !.stream = Slice(@, need, Len(@))], st |-> "ok",
              line |-> line \o SubSeq(si.stream, 1, need)]
        ELSE siFail([si EXCEPT !.stream = <<>>], "EOF"))

GetLineBufferLeaks(si, lineSize) ==
    \* GetLineBuffer dropping a buffer that is too small instead of putting it back
    IF si.buf = -1 \/ lineSize > si.buf
    THEN [si EXCEPT !.lineGets = @ + 1,
                    !.buf = PoolCap(lineSize)]
    ELSE si

GetLineBuffer(si, lineSize) ==
    \* a buffer from the pool when there is none or it is too small; the one
    \* that is replaced goes back to the pool
    IF si.buf = -1 \/ lineSize > si.buf
    THEN [si EXCEPT !.linePuts = IF si.buf # -1 THEN @ + 1 ELSE @,
                    !.lineGets = @ + 1,
                    !.buf = PoolCap(lineSize)]
    ELSE si

TakeLine(si, t, l) ==
    \* from the line length on: the buffer, what readBuf already holds of the
    \* line, the rest of the line from the reader
    IF l.v >= maxLineLength THEN siFail(si, "line too long")
    ELSE With(GetLineBuffer(si, l.v), LAMBDA s :
         With(t.n + l.n, LAMBDA from :
             IF from < 0 THEN [si |-> s, st |-> "panic"]
             ELSE With(MinOf(l.v, Len(s.readBuf) - from), LAMBDA n :
                      ReadLine([s EXCEPT !.readBuf = Slice(@, from + n, Len(@))],
                               Slice(s.readBuf, from, from + n), l.v))))

RECURSIVE ReadSymbolCounts(_, _)
ReadSymbolCounts(si, lastAttempt) ==
    \* for nSymbolsWidth == 0: the length of the symbols section, the number
    \* of symbols
    With(readerRead(si, readBufLen - Len(si.readBuf)), LAMBDA rd :
    With(readBufFill(si, rd.n), LAMBDA s :
    With(binaryUvarint(s.readBuf), LAMBDA len :
    With(IF len.n < 0 THEN len ELSE binaryUvarint(Slice(s.readBuf, len.n, Len(s.readBuf))), LAMBDA cnt :
        IF rd.eof /\ s.readBuf = <<>> THEN [si |-> s, st |-> "false"]
        ELSE IF rd.eof /\ Len(s.readBuf) = lastAttempt THEN siFail(s, "invalid data in chunk")
        ELSE IF len.n < 0 THEN [si |-> s, st |-> "panic"]
        ELSE IF cnt.n = 0
        THEN IF ~rd.eof /\ rd.n = 0 THEN [si |-> s, st |-> "hang"]
             ELSE ReadSymbolCounts(s, Len(s.readBuf))
        ELSE IF len.n + cnt.n < 0 THEN [si |-> s, st |-> "panic"]
        ELSE [si |-> [s EXCEPT !.readBuf = Slice(@, len.n + cnt.n, Len(@))],
              st |-> "ok", nSymbols |-> cnt.v]))))

GetSymbolsBuffer(si, nSymbols) ==
    IF nSymbols > (IF si.symbolsBuf = -1 THEN 0 ELSE si.symbolsBuf)
    THEN [si EXCEPT !.symbolPuts = IF si.symbolsBuf # -1 THEN @ + 1 ELSE @,
                    !.symbolGets = @ + 1,
                    !.symbolsBuf = PoolCap(nSymbols)]
    ELSE si

RECURSIVE ReadSymbol(_, _)
ReadSymbol(si, lastAttempt) ==
    \* for vWidth == 0: the name and the value of one symbol
    With(readerRead(si, readBufLen - Len(si.readBuf)), LAMBDA rd :
    With(readBufFill(si, rd.n), LAMBDA s :
    With(binaryUvarint(s.readBuf), LAMBDA name :
    With(IF name.n < 0 THEN name ELSE binaryUvarint(Slice(s.readBuf, name.n, Len(s.readBuf))), LAMBDA value :
        IF rd.eof /\ s.readBuf = <<>> THEN [si |-> s, st |-> "false"]
        ELSE IF rd.eof /\ Len(s.readBuf) = lastAttempt THEN siFail(s, "invalid data in chunk")
        ELSE IF name.n < 0 THEN [si |-> s, st |-> "panic"]
        ELSE IF value.n = 0
        THEN IF ~rd.eof /\ rd.n = 0 THEN [si |-> s, st |-> "hang"]
             ELSE ReadSymbol(s, Len(s.readBuf))
        ELSE IF name.n + value.n < 0 THEN [si |-> s, st |-> "panic"]
        ELSE [si |-> [s EXCEPT !.readBuf = Slice(@, name.n + value.n, Len(@))],
              st |-> "ok", sym |-> <<name.v, value.v>>]))))

RECURSIVE ReadSymbolsOf(_, _, _)
ReadSymbolsOf(si, nSymbols, syms) ==
    IF Len(syms) >= nSymbols THEN [si |-> si, st |-> "ok", syms |-> syms]
    ELSE With(ReadSymbol(si, 0), LAMBDA r :
             IF r.st # "ok" THEN r
             ELSE ReadSymbolsOf(r.si, nSymbols, Append(syms, r.sym)))

siMoveNext(si) ==
    \* moveNext: the entry, or why there is none ("false": moveNext returned
    \* false; "panic", "hang": it did not return)
    With(ReadTsAndLen(si, 0), LAMBDA r1 :
        IF r1.st # "ok" THEN r1
        ELSE With(TakeLine(r1.si, r1.t, r1.l), LAMBDA r2 :
            IF r2.st # "ok" THEN r2
            ELSE IF si.format < chunkFormatV4
            THEN [si |-> r2.si, st |-> "ok", e |-> Entry(r1.t.v, r2.line)]
            ELSE With(ReadSymbolCounts(r2.si, 0), LAMBDA r3 :
                IF r3.st # "ok" THEN r3
                ELSE With(ReadSymbolsOf(GetSymbolsBuffer(r3.si, r3.nSymbols),
                                        r3.nSymbols, <<>>), LAMBDA r4 :
                    IF r4.st # "ok" THEN r4
                    ELSE [si |-> r4.si, st |-> "ok",
                          e |-> [t |-> r1.t.v, s |-> r2.line,
                                 lbls |-> symbolizerLookup(si.symbolizer, r4.syms)]]))))

siRelease(si) ==
    \* close(): what is held goes back to its pool, and is forgotten
    [si EXCEPT !.readerPuts = IF si.reader THEN @ + 1 ELSE @,
               !.reader = FALSE,
               !.linePuts = IF si.buf # -1 THEN @ + 1 ELSE @,
               !.buf = -1,
               !.symbolPuts = IF si.symbolsBuf # -1 THEN @ + 1 ELSE @,
               !.symbolsBuf = -1]

siClose(si) ==
    IF ~si.closed THEN siRelease([si EXCEPT !.closed = TRUE]) ELSE si

siNext(si) ==
    IF si.closed THEN [si EXCEPT !.ok = FALSE]
    ELSE IF ~si.reader /\ si.badReader
    THEN [si EXCEPT !.err = "GetReader", !.ok = FALSE]
    ELSE With(IF si.reader THEN si
              ELSE [si EXCEPT !.reader = TRUE, !.readerGets = @ + 1], LAMBDA s :
         With(siMoveNext(s), LAMBDA r :
             IF r.st = "ok"
             THEN [r.si EXCEPT !.ok = TRUE, !.emitted = Append(@, r.e)]
             ELSE IF r.st = "false"
             THEN siClose([r.si EXCEPT !.ok = FALSE])
             ELSE [r.si EXCEPT !.ok = FALSE, !.fault = r.st]))

(***************************************************************************)
(* The block iterator over given decompressed streams: well-formed streams *)
(* of formats v3 and v4, each cut at every position, and streams with      *)
(* varints that do not fit 64 bits.  The reader hands out at most maxRead  *)
(* bytes per call.  last.bytes is the stream, last.out the entries it was  *)
(* encoded from, last.corrupt where it was cut; admit is false once the    *)
(* caller has called Close, and rebuilt records that Next or Close was     *)
(* called on a closed iterator.                                            *)
(***************************************************************************)
MaxDecodeCalls == 5

LongLine == [k \in 1..130 |-> 97]

DecodeEntries ==
    { <<chunkFormatV3, <<Entry(1, LineA)>> >>,
      <<chunkFormatV3, <<Entry(100, LineA), Entry(1, <<97, 97, 97>>)>> >>,
      <<chunkFormatV3, <<Entry(1, LongLine)>> >>,
      <<chunkFormatV4, <<[t |-> 1, s |-> LineA, syms |-> <<>>]>> >>,
      <<chunkFormatV4, <<[t |-> 1, s |-> LineA, syms |-> << <<0, 1>> >>],
                         [t |-> 2, s |-> LineBB, syms |-> << <<0, 1>>, <<2, 3>> >>]>> >> }

Continuation(n) == [k \in 1..n |-> 128]

OverlongStreams ==
    \* varints of eleven bytes, or of ten bytes with a last byte above 1,
    \* where the timestamp, the line length or the symbols section is read
    { <<chunkFormatV3, Continuation(10) \o <<0>>, "overlong ts" >>,
      <<chunkFormatV3, Continuation(9) \o <<2>>, "overlong ts" >>,
      <<chunkFormatV3, <<2>> \o Continuation(10) \o <<0>>, "overlong length" >>,
      <<chunkFormatV3, Continuation(9) \o <<0>> \o Continuation(9) \o <<2>>, "overlong length" >>,
      <<chunkFormatV3, Continuation(9) \o <<0>> \o Continuation(10) \o <<0>>, "overlong length" >>,
      <<chunkFormatV4, <<2, 1, 97>> \o Continuation(10) \o <<0>>, "overlong symbols" >>,
      <<chunkFormatV3, <<2, 128, 128, 128, 128, 4>>, "line too long" >> }

MaxReads == {3, 32}

EncodedLen(es, k) == Len(EncodeEntries(SubSeq(es, 1, k)))

WholeEntries(es, p) ==
    \* the entries of es that lie within the first p bytes of their encoding
    SubSeq(es, 1, CHOOSE k \in 0..Len(es) :
                      /\ EncodedLen(es, k) <= p
                      /\ \A j \in 0..Len(es) : EncodedLen(es, j) <= p => j <= k)

CutInsideEntry(es, p) == \A k \in 0..Len(es) : EncodedLen(es, k) # p

Emitted(format, es) ==
    \* what the iterator hands out for the entries es
    [k \in 1..Len(es) |->
        IF format < chunkFormatV4 THEN es[k]
        ELSE [t |-> es[k].t, s |-> es[k].s,
              lbls |-> symbolizerLookup(DecodeSymbolizer, es[k].syms)]]

InitDecode ==
    /\ \E maxRead \in MaxReads :
         \/ \E in \in DecodeEntries, badReader \in BOOLEAN :
              \E p \in 0..Len(EncodeEntries(in[2])) :
                 /\ badReader => p = Len(EncodeEntries(in[2]))
                 /\ inFlight = newBufferedIteratorAt(SubSeq(EncodeEntries(in[2]), 1, p),
                                                     in[1], maxRead, badReader)
                 /\ last = [NoOp EXCEPT !.bytes = SubSeq(EncodeEntries(in[2]), 1, p),
                                        !.out = in[2], !.corrupt = p,
                                        !.damage = IF CutInsideEntry(in[2], p)
                                                   THEN "cut" ELSE "none"]
         \/ \E in \in OverlongStreams :
                 /\ inFlight = newBufferedIteratorAt(in[2], in[1], maxRead, FALSE)
                 /\ last = [NoOp EXCEPT !.bytes = in[2], !.damage = in[3]]
    /\ c = NoChunk
    /\ prev = NoChunk
    /\ admit = TRUE
    /\ appended = 0
    /\ rebuilt = FALSE
    /\ ckpt = NoCheckpoint

DoNext ==
    /\ inFlight.fault = "none"
    /\ appended < MaxDecodeCalls
    /\ inFlight' = siNext(inFlight)
    /\ last' = [last EXCEPT !.op = "Next"]
    /\ appended' = appended + 1
    /\ rebuilt' = (rebuilt \/ inFlight.closed)
    /\ UNCHANGED <<c, prev, admit, ckpt>>

DoIteratorClose ==
    /\ inFlight.fault = "none"
    /\ appended < MaxDecodeCalls
    /\ inFlight' = siClose(inFlight)
    /\ last' = [last EXCEPT !.op = "Close", !.err = inFlight'.err]
    /\ appended' = appended + 1
    /\ rebuilt' = (rebuilt \/ inFlight.closed)
    /\ admit' = FALSE
    /\ UNCHANGED <<c, prev, ckpt>>

NextDecode ==
    \/ DoNext
    \/ DoIteratorClose

SpecDecode == InitDecode /\ [][NextDecode]_vars

NextReturnedFalse ==
    \* Next has returned false, and not because the caller had closed the
    \* iterator
    /\ last.op = "Next"
    /\ admit
    /\ inFlight.fault = "none"
    /\ ~inFlight.ok

DecodeAgrees ==
    \* on a whole stream the iterator hands out, entry by entry, what the
    \* stream was encoded from, and stops without an error
    (last.damage = "none" /\ ~inFlight.badReader /\ inFlight.fault = "none")
    => /\ \E k \in 0..Len(last.out) :
            inFlight.emitted = Emitted(inFlight.format, SubSeq(last.out, 1, k))
       /\ inFlight.err = "nil"
       /\ NextReturnedFalse
          => inFlight.emitted = Emitted(inFlight.format, WholeEntries(last.out, last.corrupt))

(***************************************************************************)
(* C28: the block iterator never panics on malformed data: for every       *)
(* decompressed stream, also one that starts with a varint too long for    *)
(* 64 bits as timestamp or line length, Next returns false and Error       *)
(* returns an error, and no slice is taken out of range.                   *)
(***************************************************************************)
C28_MalformedStreamsGiveErrors ==
    /\ inFlight.fault = "none"
    /\ (last.damage \notin {"none", "cut"} /\ last.op = "Next")
       => (~inFlight.ok /\ inFlight.err # "nil")

(***************************************************************************)
(* C29: when the stream ends inside an entry (in the timestamp or the      *)
(* length varint, in the line, and for v4 before or inside the symbols     *)
(* section), the iterator stops, hands out no partial entry, and Error is  *)
(* not nil after Next returned false.                                      *)
(***************************************************************************)
C29_TruncationGivesError ==
    (last.damage = "cut" /\ NextReturnedFalse)
    => /\ inFlight.err # "nil"
       /\ inFlight.emitted = Emitted(inFlight.format, WholeEntries(last.out, last.corrupt))

C29_TruncationHandsOutNoPartialEntry ==
    \* the part of C29 that does hold: nothing but the whole entries before
    \* the cut is handed out
    (last.damage = "cut" /\ inFlight.fault = "none")
    => \E k \in 0..Len(WholeEntries(last.out, last.corrupt)) :
          inFlight.emitted = Emitted(inFlight.format, SubSeq(last.out, 1, k))

C29_TruncationBelowV4GivesError ==
    (last.damage = "cut" /\ NextReturnedFalse /\ inFlight.format < chunkFormatV4)
    => inFlight.err # "nil"

Held(gets, puts, has) == gets - puts = (IF has THEN 1 ELSE 0)

PoolsBalanced(si) ==
    /\ Held(si.readerGets, si.readerPuts, si.reader)
    /\ Held(si.lineGets, si.linePuts, si.buf # -1)
    /\ Held(si.symbolGets, si.symbolPuts, si.symbolsBuf # -1)

HoldsNothing(si) == ~si.reader /\ si.buf = -1 /\ si.symbolsBuf = -1

(***************************************************************************)
(* C30: the pooled resources of a block iterator are released exactly      *)
(* once.  Whatever was taken from a pool and is no longer held has been    *)
(* put back once, a buffer replaced by a larger one when it was replaced;  *)
(* after Next returned false by exhaustion or by a decode error, and after *)
(* Close, nothing is held; Next and Close on a closed iterator return      *)
(* false and the same error, and release nothing again.                    *)
(***************************************************************************)
C30_ReleasedExactlyOnce ==
    [][/\ PoolsBalanced(inFlight')
       /\ (inFlight'.closed \/ (inFlight'.fault = "none" /\ ~inFlight'.ok))
          => HoldsNothing(inFlight')
       /\ inFlight.closed
          => /\ last'.op = "Next" => ~inFlight'.ok
             /\ last'.op = "Close" => last'.err = inFlight.err
             /\ inFlight'.err = inFlight.err
             /\ inFlight'.readerPuts = inFlight.readerPuts
             /\ inFlight'.linePuts = inFlight.linePuts
             /\ inFlight'.symbolPuts = inFlight.symbolPuts]_vars

C30_ReplacedThenClosedTwice ==
    \* a line buffer and a symbols buffer were replaced by larger ones, the
    \* iterator ran to its end, and Next was called again
    /\ inFlight.closed
    /\ rebuilt
    /\ last.op = "Next"
    /\ inFlight.readerPuts = 1
    /\ inFlight.linePuts = 2
    /\ inFlight.symbolPuts = 2

(***************************************************************************)
(* C32: Close terminates for every chunk and every timestamp, also for     *)
(* blocks whose mint is negative: reorder calls Rebound at most once,      *)
(* because the chunk Rebound has built is found ordered by its own Close.  *)
(***************************************************************************)
C32_CloseTerminates == last.op = "Close" => last.err # "StackOverflow"

C32_CloseTerminatesFromZeroOn ==
    \* what does hold: a chunk with the ordered head and no block that starts
    \* below 0 is closed
    (/\ last.op = "Close"
     /\ IsOrderedFmt(prev.headFmt)
     /\ \A k \in 1..Len(cut(prev).blocks) : cut(prev).blocks[k].mint >= 0)
    => last.err # "StackOverflow"

(***************************************************************************)
(* C33: Close does not change the chunk's configuration: format, encoding, *)
(* head format, blockSize and targetSize after Close are those before it,  *)
(* also when Close had to reorder overlapping blocks.                      *)
(***************************************************************************)
Configuration(ch) == <<ch.format, ch.encoding, ch.headFmt, ch.blockSize, ch.targetSize>>

C33_CloseKeepsConfiguration ==
    (last.op = "Close" /\ last.err = "nil") => Configuration(c) = Configuration(prev)

C33_CloseKeepsEncodingAndHead ==
    \* what does hold: the encoding and the head format are kept, and all of
    \* the configuration when the blocks were in order
    (last.op = "Close" /\ last.err = "nil")
    => /\ c.encoding = prev.encoding
       /\ c.headFmt = prev.headFmt
       /\ IsOrdered(cut(prev).blocks, 0) => Configuration(c) = Configuration(prev)

(***************************************************************************)
(* C34: entry conservation.  In every state reached by Appends, cuts and   *)
(* Close, also a Close that reorders, Size() is the number of Appends that *)
(* returned nil: neither cut nor Close changes the sum of the blocks'      *)
(* entry counts and the head's.                                            *)
(***************************************************************************)
C34_SizeIsAppendsAdmitted == ~Crashed => Size(c) = appended

C34_SizeKeptUnlessReordered ==
    \* what does hold: Size() changes by one with every Append that returns
    \* nil, and Close keeps it when the blocks are in order
    /\ last.op = "Append" => Size(c) = Size(prev) + (IF last.err = "nil" THEN 1 ELSE 0)
    /\ (last.op = "Close" /\ IsOrdered(cut(prev).blocks, 0)) => Size(c) = Size(prev)

(***************************************************************************)
(* C35: Close is idempotent: Close on a chunk on which Close has already   *)
(* succeeded returns nil and leaves the blocks, cutBlockSize, Size(),      *)
(* Bounds() and the empty head as they are.                                *)
(***************************************************************************)
C35_CloseIdempotent ==
    [][(last.op = "Close" /\ last.err = "nil" /\ last'.op = "Close")
       => /\ last'.err = "nil"
          /\ c'.blocks = c.blocks
          /\ c'.cutBlockSize = c.cutBlockSize
          /\ Size(c') = Size(c)
          /\ Bounds(c') = Bounds(c)
          /\ hbIsEmpty(c.head) /\ c'.head = c.head]_vars

C35_ClosedTwiceAfterReorder ==
    \* Close reordered overlapping blocks, and Close was called again
    /\ last.op = "Close"
    /\ last.err = "nil"
    /\ prev = c
    /\ rebuilt
    /\ Len(c.blocks) > 0

(***************************************************************************)
(* The in-memory LRU cache (type LRUCache).  c.lru is simplelru's list,    *)
(* most recently used first, of items [key, val]; a value is a byte slice, *)
(* held as the index of its backing array in the store of arrays, so that  *)
(* two slices of one array are told from a copy.  The caller's arrays come *)
(* first in the store, the cache's copies after them.  The gauges and      *)
(* counters are the numbers of the Prometheus collectors.                  *)
(***************************************************************************)
SizeofSlice == 24

entryMemoryUsage(key, val) == SizeofSlice + Len(key)

NewLRUCache(maxSizeBytes) ==
    [lru |-> <<>>, maxSizeBytes |-> maxSizeBytes, bytesInUse |-> 0, current |-> 0,
     added |-> 0, evicted |-> 0, requests |-> 0, hits |-> 0, totalMisses |-> 0]

lruContains(l, key) == \E i \in 1..Len(l) : l[i].key = key

lruIndex(l, key) == CHOOSE i \in 1..Len(l) : l[i].key = key

lruGet(l, key) ==
    \* simplelru Get: the item moves to the front
    IF ~lruContains(l, key) THEN [lru |-> l, ok |-> FALSE, val |-> 0]
    ELSE With(lruIndex(l, key), LAMBDA i :
             [lru |-> <<l[i]>> \o SubSeq(l, 1, i - 1) \o SubSeq(l, i + 1, Len(l)),
              ok |-> TRUE, val |-> l[i].val])

lruAdd(l, key, val) ==
    \* simplelru Add with a size of maxInt: nothing is ever evicted here
    IF lruContains(l, key)
    THEN With(lruIndex(l, key), LAMBDA i :
             <<[key |-> key, val |-> val]>> \o SubSeq(l, 1, i - 1) \o SubSeq(l, i + 1, Len(l)))
    ELSE <<[key |-> key, val |-> val]>> \o l

get(cache, key) ==
    With(lruGet(cache.lru, key), LAMBDA g :
        [c |-> [cache EXCEPT !.requests = @ + 1,
                             !.lru = g.lru,
                             !.totalMisses = IF g.ok THEN @ ELSE @ + 1,
                             !.hits = IF g.ok THEN @ + 1 ELSE @],
         ok |-> g.ok, val |-> g.val])

setKeepsSlice(cache, arrays, key, val) ==
    \* set keeping the caller's slice instead of a copy
    With(lruGet(cache.lru, key), LAMBDA g :
        IF g.ok THEN [c |-> [cache EXCEPT !.lru = g.lru], arrays |-> arrays]
        ELSE [c |-> [cache EXCEPT !.lru = lruAdd(g.lru, key, val),
                                  !.bytesInUse = @ + entryMemoryUsage(key, arrays[val]),
                                  !.added = @ + 1,
                                  !.current = @ + 1],
              arrays |-> arrays])

set(cache, arrays, key, val) ==
    With(lruGet(cache.lru, key), LAMBDA g :
        IF g.ok THEN [c |-> [cache EXCEPT !.lru = g.lru], arrays |-> arrays]
        ELSE [c |-> [cache EXCEPT !.lru = lruAdd(g.lru, key, Len(arrays) + 1),
                                  !.bytesInUse = @ + entryMemoryUsage(key, arrays[val]),
                                  !.added = @ + 1,
                                  !.current = @ + 1],
              arrays |-> Append(arrays, arrays[val])])

RECURSIVE Store(_, _, _, _)
Store(cache, arrays, keys, values) ==
    \* for i := range keys: c.set(keys[i], values[i])
    IF keys = <<>> THEN [c |-> cache, arrays |-> arrays]
    ELSE With(set(cache, arrays, Head(keys), Head(values)), LAMBDA r :
             Store(r.c, r.arrays, Tail(keys), Tail(values)))

RECURSIVE Fetch(_, _)
Fetch(cache, keys) ==
    IF keys = <<>> THEN [c |-> cache, found |-> <<>>, bufs |-> <<>>, missing |-> <<>>]
    ELSE With(get(cache, Head(keys)), LAMBDA g :
         With(Fetch(g.c, Tail(keys)), LAMBDA r :
             IF g.ok THEN [r EXCEPT !.found = <<Head(keys)>> \o @, !.bufs = <<g.val>> \o @]
             ELSE [r EXCEPT !.missing = <<Head(keys)>> \o @]))

(***************************************************************************)
(* A cache and its caller.  The caller owns two arrays, stores slices of   *)
(* them under keys of one and two bytes, writes to its arrays, and         *)
(* fetches.  ckpt records for each key the bytes of the first Store;       *)
(* rebuilt, that a key was stored again with other bytes; admit is false   *)
(* once the caller has written to an array it had stored.                  *)
(***************************************************************************)
MaxCacheOps == 4

CacheKeys == {<<107>>, <<107, 107>>, <<108>>}

CacheSizes == {30, 60, 200}

CallerArrays == << <<1>>, <<2>> >>

KeyLists == {<<k>> : k \in CacheKeys} \cup {<<k1, k2>> : k1 \in CacheKeys, k2 \in CacheKeys}

ValueLists(n) == IF n = 1 THEN {<<1>>, <<2>>} ELSE {<<1, 2>>, <<2, 1>>, <<1, 1>>}

RECURSIVE FirstStores(_, _, _, _)
FirstStores(first, arrays, keys, values) ==
    IF keys = <<>> THEN first
    ELSE FirstStores(IF first[Head(keys)] = <<>>
                     THEN [first EXCEPT ![Head(keys)] = <<arrays[Head(values)]>>]
                     ELSE first,
                     arrays, Tail(keys), Tail(values))

InitCache ==
    /\ \E m \in CacheSizes : c = NewLRUCache(m)
    /\ inFlight = CallerArrays
    /\ ckpt = [k \in CacheKeys |-> <<>>]
    /\ last = [op |-> "New", keys |-> <<>>, found |-> <<>>, bufs |-> <<>>, missing |-> <<>>]
    /\ prev = NoChunk
    /\ admit = TRUE
    /\ appended = 0
    /\ rebuilt = FALSE

DoStore ==
    /\ appended < MaxCacheOps
    /\ \E keys \in KeyLists :
         \E values \in ValueLists(Len(keys)) :
            With(Store(c, inFlight, keys, values), LAMBDA r :
            With(FirstStores(ckpt, inFlight, keys, values), LAMBDA first :
                /\ c' = r.c
                /\ inFlight' = r.arrays
                /\ ckpt' = first
                /\ last' = [op |-> "Store", keys |-> keys, found |-> <<>>,
                            bufs |-> <<>>, missing |-> <<>>]
                /\ rebuilt' = (rebuilt \/ \E i \in 1..Len(keys) :
                                             first[keys[i]] # <<inFlight[values[i]]>>)))
    /\ appended' = appended + 1
    /\ UNCHANGED <<prev, admit>>

DoCallerWrites ==
    /\ appended < MaxCacheOps
    /\ \E a \in 1..Len(CallerArrays) :
         /\ inFlight[a] = CallerArrays[a]
         /\ inFlight' = [inFlight EXCEPT ![a] = <<9>>]
         /\ admit' = (admit /\ \A k \in CacheKeys : ckpt[k] # <<inFlight[a]>>)
    /\ last' = [op |-> "Write", keys |-> <<>>, found |-> <<>>, bufs |-> <<>>,
                missing |-> <<>>]
    /\ appended' = appended + 1
    /\ UNCHANGED <<c, prev, rebuilt, ckpt>>

DoFetch ==
    /\ appended < MaxCacheOps
    /\ \E keys \in KeyLists :
         With(Fetch(c, keys), LAMBDA r :
             /\ c' = r.c
             /\ last' = [op |-> "Fetch", keys |-> keys, found |-> r.found,
                         bufs |-> [i \in 1..Len(r.bufs) |-> inFlight[r.bufs[i]]],
                         missing |-> r.missing])
    /\ appended' = appended + 1
    /\ UNCHANGED <<prev, admit, rebuilt, inFlight, ckpt>>

NextCache ==
    \/ DoStore
    \/ DoCallerWrites
    \/ DoFetch

SpecCache == InitCache /\ [][NextCache]_vars

RECURSIVE AccountedBytes(_)
AccountedBytes(l) ==
    IF l = <<>> THEN 0 ELSE SizeofSlice + Len(Head(l).key) + AccountedBytes(Tail(l))

(***************************************************************************)
(* C31: the LRU cache enforces MaxSizeBytes as an upper limit: after any   *)
(* Store calls the memory accounted to the cached items is at most the     *)
(* configured MaxSizeBytes, the oldest items being evicted when a Store    *)
(* would exceed it.                                                        *)
(***************************************************************************)
C31_AccountedWithinMaxSizeBytes == c.bytesInUse <= c.maxSizeBytes

C31_GaugesFollowItems ==
    \* what does hold: the gauges are the number of cached items and the
    \* memory accounted to them, and nothing is ever evicted
    /\ c.bytesInUse = AccountedBytes(c.lru)
    /\ c.current = Len(c.lru)
    /\ c.added = Len(c.lru)
    /\ c.evicted = 0

CachedBytes(cache, arrays, key) == arrays[cache.lru[lruIndex(cache.lru, key)].val]

(***************************************************************************)
(* C36: first write wins.  Store of a key that is already cached leaves    *)
(* the cached value and the item and byte gauges as they are, and the      *)
(* cached value is a private copy: a later Fetch returns the bytes of the  *)
(* first Store, also when the caller has since written to its slice or     *)
(* stored other bytes under the key.                                       *)
(***************************************************************************)
C36_FirstWriteWins ==
    [][/\ \A k \in CacheKeys :
            lruContains(c'.lru, k) => <<CachedBytes(c', inFlight', k)>> = ckpt'[k]
       /\ (last'.op = "Store" /\ \A i \in 1..Len(last'.keys) : lruContains(c.lru, last'.keys[i]))
          => /\ c'.current = c.current
             /\ c'.bytesInUse = c.bytesInUse
             /\ \A k \in CacheKeys :
                   lruContains(c.lru, k)
                   => CachedBytes(c', inFlight', k) = CachedBytes(c, inFlight, k)
       /\ last'.op = "Fetch"
          => /\ \A i \in 1..Len(last'.found) : <<last'.bufs[i]>> = ckpt[last'.found[i]]
             /\ Len(last'.bufs) = Len(last'.found)
             /\ \A i \in 1..Len(last'.keys) :
                   (ckpt[last'.keys[i]] # <<>>)
                   <=> \E j \in 1..Len(last'.found) : last'.found[j] = last'.keys[i]]_vars

C36_FetchedAfterWriteAndSecondStore ==
    \* a key was stored, its slice written to by the caller, the key stored
    \* again with other bytes, and fetched
    /\ last.op = "Fetch"
    /\ ~admit
    /\ rebuilt
    /\ \E i \in 1..Len(last.found) :
          /\ <<last.bufs[i]>> = ckpt[last.found[i]]
          /\ \A a \in 1..Len(CallerArrays) : inFlight[a] # last.bufs[i]

(***************************************************************************)
(* The TSDB manager (pkg/storage/stores/tsdb/manager.go).  The manager's   *)
(* shipper and the no-op shipper used for legacy WALs are kept as the      *)
(* lists of AddIndex calls made on them.  The file system, the WAL         *)
(* recovery, the builder and the loader are outside the manager: what each *)
(* of their calls returns is an input of the operation.                    *)
(***************************************************************************)
NewTSDBManager == [shipper |-> <<>>, noop |-> <<>>]

\* shipper.AddIndex(tableName, "", loaded): the call is recorded on the
\* shipper it was made on, with what the loader had returned for the file.
AddIndex(m, shipper, tableName, file, loaded) ==
    [m EXCEPT ![shipper] = Append(@, [tableName |-> tableName, file |-> file,
                                      loaded |-> loaded])]

\* The body of Start's inner loop, for the files tsdbs[i..] of one bucket.
RECURSIVE StartBucket(_, _, _, _)
StartBucket(st, bucket, tsdbs, i) ==
    IF i > Len(tsdbs) \/ st.err # "nil" THEN st
    ELSE With(tsdbs[i], LAMBDA db :
         IF ~db.parses THEN StartBucket(st, bucket, tsdbs, i + 1)
         ELSE With([st EXCEPT !.indices = @ + 1,
                              !.loadingErrors = IF db.loads THEN @ ELSE @ + 1],
                   LAMBDA s1 :
              With([s1 EXCEPT !.m = AddIndex(@, "shipper", bucket, db.name, db.loads)],
                   LAMBDA s2 :
                  IF ~db.adds
                  THEN [s2 EXCEPT !.loadingErrors = @ + 1, !.err = "AddIndex"]
                  ELSE StartBucket(s2, bucket, tsdbs, i + 1))))

\* Start's outer loop over the entries files[i..] of the multitenant dir.
RECURSIVE StartFiles(_, _, _)
StartFiles(st, files, i) ==
    IF i > Len(files) \/ st.err # "nil" THEN st
    ELSE With(files[i], LAMBDA f :
         IF ~f.isDir THEN StartFiles(st, files, i + 1)
         ELSE IF ~f.inRange THEN StartFiles(st, files, i + 1)
         ELSE With([st EXCEPT !.buckets = @ + 1], LAMBDA s1 :
              IF ~f.readable THEN StartFiles(s1, files, i + 1)
              ELSE StartFiles(StartBucket(s1, f.name, f.tsdbs, 1), files, i + 1)))

Start(m, readDirFails, files) ==
    With([m |-> m, err |-> "nil", buckets |-> 0, indices |-> 0, loadingErrors |-> 0],
         LAMBDA st :
        IF readDirFails THEN [st EXCEPT !.err = "ReadDir"]
        ELSE StartFiles(st, files, 1))

\* buildFromHead's loop over the periods of one head, in the order the map
\* is ranged over; Build and NewShippableTSDBFile return early on an error.
RECURSIVE buildPeriods(_, _, _, _, _)
buildPeriods(st, wal, shipper, periods, i) ==
    IF i > Len(periods) THEN st
    ELSE With(periods[i], LAMBDA p :
         IF ~p.builds THEN [st EXCEPT !.err = "Build"]
         ELSE With([st EXCEPT !.built = Append(@, <<wal, p.name>>)], LAMBDA s1 :
              IF ~p.loads THEN [s1 EXCEPT !.err = "NewShippableTSDBFile"]
              ELSE With([s1 EXCEPT !.m = AddIndex(@, shipper, p.name, <<wal, p.name>>, TRUE)],
                        LAMBDA s2 :
                   IF ~p.adds THEN [s2 EXCEPT !.err = "AddIndex"]
                   ELSE buildPeriods(s2, wal, shipper, periods, i + 1))))

buildFromHead(st, heads, shipper) ==
    IF ~heads.forAll THEN [st EXCEPT !.err = "forAll"]
    ELSE buildPeriods(st, heads.id, shipper, heads.periods, 1)

RECURSIVE buildWALs(_, _, _, _)
buildWALs(st, ids, shipper, i) ==
    IF i > Len(ids) THEN st
    ELSE IF ~ids[i].recovers THEN [st EXCEPT !.err = "recoverHead"]
    ELSE With(buildFromHead(st, ids[i], shipper), LAMBDA s1 :
         IF s1.err # "nil" THEN s1
         ELSE buildWALs(s1, ids, shipper, i + 1))

BuildFromWALsShips(m, ids, legacy) ==
    buildWALs([m |-> m, err |-> "nil", built |-> <<>>], ids, "shipper", 1)

BuildFromWALs(m, ids, legacy) ==
    buildWALs([m |-> m, err |-> "nil", built |-> <<>>], ids,
              IF legacy THEN "noop" ELSE "shipper", 1)

(***************************************************************************)
(* The manager lane: Start and BuildFromWALs are called on one manager, up *)
(* to MaxManagerCalls times, with every content of the directory and every *)
(* outcome of the outside calls.                                           *)
(***************************************************************************)
MaxManagerCalls == 2

Tsdbs ==
    {[name |-> "unparsable", parses |-> FALSE, loads |-> FALSE, adds |-> TRUE],
     [name |-> "good", parses |-> TRUE, loads |-> TRUE, adds |-> TRUE],
     [name |-> "corrupt", parses |-> TRUE, loads |-> FALSE, adds |-> TRUE],
     [name |-> "refused", parses |-> TRUE, loads |-> TRUE, adds |-> FALSE],
     [name |-> "corrupt-refused", parses |-> TRUE, loads |-> FALSE, adds |-> FALSE]}

TsdbLists == {<<>>} \cup {<<a>> : a \in Tsdbs} \cup {<<a, b>> : a, b \in Tsdbs}

DirEntries ==
    {[name |-> "file", isDir |-> FALSE, inRange |-> FALSE, readable |-> FALSE, tsdbs |-> <<>>],
     [name |-> "old", isDir |-> TRUE, inRange |-> FALSE, readable |-> TRUE, tsdbs |-> <<>>],
     [name |-> "locked", isDir |-> TRUE, inRange |-> TRUE, readable |-> FALSE, tsdbs |-> <<>>]}
    \cup {[name |-> "index_1", isDir |-> TRUE, inRange |-> TRUE, readable |-> TRUE, tsdbs |-> l] :
            l \in TsdbLists}

DirListings == {<<>>} \cup {<<a>> : a \in DirEntries}
               \cup {<<a, b>> : a \in DirEntries,
                                b \in {[e EXCEPT !.name = "index_2"] : e \in
                                          {d \in DirEntries : d.name = "index_1"
                                                             /\ Len(d.tsdbs) <= 1}}}

Periods ==
    {[name |-> n, builds |-> b[1], loads |-> b[2], adds |-> b[3]] :
        n \in {"index_1", "index_2"},
        b \in {<<TRUE, TRUE, TRUE>>, <<FALSE, TRUE, TRUE>>,
               <<TRUE, FALSE, TRUE>>, <<TRUE, TRUE, FALSE>>}}

PeriodLists == {<<>>} \cup {<<a>> : a \in Periods}
               \cup {l \in {<<a, b>> : a, b \in Periods} : l[1].name # l[2].name}

WALs(id) ==
    {[id |-> id, recovers |-> FALSE, forAll |-> TRUE, periods |-> <<>>],
     [id |-> id, recovers |-> TRUE, forAll |-> FALSE, periods |-> <<>>]}
    \cup {[id |-> id, recovers |-> TRUE, forAll |-> TRUE, periods |-> l] : l \in PeriodLists}

WALLists == {<<>>} \cup {<<a>> : a \in WALs(1)}
            \cup {<<a, b>> : a \in WALs(1),
                             b \in {w \in WALs(2) : Len(w.periods) <= 1}}

InitManager ==
    /\ c = NewTSDBManager
    /\ last = [op |-> "New", err |-> "nil"]
    /\ prev = NewTSDBManager
    /\ admit = TRUE
    /\ appended = 0
    /\ rebuilt = FALSE
    /\ inFlight = <<>>
    /\ ckpt = <<>>

DoStart ==
    /\ appended < MaxManagerCalls
    /\ \E readDirFails \in BOOLEAN :
         \E files \in DirListings :
            With(Start(c, readDirFails, files), LAMBDA r :
                /\ c' = r.m
                /\ last' = [op |-> "Start", err |-> r.err, files |-> files,
                            readDirFails |-> readDirFails,
                            buckets |-> r.buckets, indices |-> r.indices,
                            loadingErrors |-> r.loadingErrors])
    /\ prev' = c
    /\ appended' = appended + 1
    /\ UNCHANGED <<admit, rebuilt, inFlight, ckpt>>

DoBuildFromWALs ==
    /\ appended < MaxManagerCalls
    /\ \E legacy \in BOOLEAN :
         \E ids \in WALLists :
            With(BuildFromWALs(c, ids, legacy), LAMBDA r :
                /\ c' = r.m
                /\ last' = [op |-> "BuildFromWALs", err |-> r.err, ids |-> ids,
                            legacy |-> legacy, built |-> r.built])
    /\ prev' = c
    /\ appended' = appended + 1
    /\ UNCHANGED <<admit, rebuilt, inFlight, ckpt>>

NextManager ==
    \/ DoStart
    \/ DoBuildFromWALs

SpecManager == InitManager /\ [][NextManager]_vars

\* the AddIndex calls the last operation made on a shipper
CallsMade(shipper) == SubSeq(c[shipper], Len(prev[shipper]) + 1, Len(c[shipper]))

\* the period indexes the last BuildFromWALs built and loaded
RECURSIVE LoadedOf(_, _)
LoadedOf(ids, built) ==
    IF built = <<>> THEN <<>>
    ELSE With(built[1], LAMBDA b :
         With(CHOOSE p \in {ids[b[1]].periods[k] : k \in 1..Len(ids[b[1]].periods)} :
                 p.name = b[2], LAMBDA p :
             (IF p.loads THEN <<b>> ELSE <<>>) \o LoadedOf(ids, Tail(built))))

(***************************************************************************)
(* C37: BuildFromWALs with legacy = true adds no index to the manager's    *)
(* own shipper (AddIndex is called on the no-op shipper only); with        *)
(* legacy = false every period index it built is added to the manager's    *)
(* shipper.                                                                *)
(***************************************************************************)
C37_LegacyNeverShips ==
    last.op = "BuildFromWALs"
    => /\ last.legacy => CallsMade("shipper") = <<>>
       /\ ~last.legacy
          => /\ CallsMade("noop") = <<>>
             /\ \A i \in 1..Len(last.built) :
                   \E k \in 1..Len(CallsMade("shipper")) :
                      CallsMade("shipper")[k].file = last.built[i]

(***************************************************************************)
(* C37 as it holds: with legacy = true no index is added to the manager's  *)
(* shipper; with legacy = false the indexes added to the manager's shipper *)
(* are, in order, the period indexes that were built and loaded, each      *)
(* under its period's table; and when BuildFromWALs returns nil every      *)
(* built index was added.                                                  *)
(***************************************************************************)
C37_LegacyNeverShipsLoadedAreShipped ==
    last.op = "BuildFromWALs"
    => With(LoadedOf(last.ids, last.built), LAMBDA loaded :
       With([k \in 1..Len(loaded) |->
                [tableName |-> loaded[k][2], file |-> loaded[k], loaded |-> TRUE]],
            LAMBDA calls :
         /\ last.legacy => CallsMade("shipper") = <<>> /\ CallsMade("noop") = calls
         /\ ~last.legacy => CallsMade("noop") = <<>> /\ CallsMade("shipper") = calls
         /\ last.err = "nil" => Len(loaded) = Len(last.built)
         /\ Len(loaded) >= Len(last.built) - 1))

C37_BothKindsBuilt ==
    \* a legacy build of two WALs after a build that shipped two periods
    /\ last.op = "BuildFromWALs"
    /\ last.legacy
    /\ last.err = "nil"
    /\ Len(last.built) = 3
    /\ Len(CallsMade("noop")) = 3
    /\ Len(c.shipper) = 2
    /\ \A k \in 1..2 : c.shipper[k].loaded

C37_BuiltNotLoaded ==
    \* legacy = false, and a period index was built that could not be loaded
    /\ last.op = "BuildFromWALs"
    /\ ~last.legacy
    /\ last.err = "NewShippableTSDBFile"
    /\ Len(last.built) = 2
    /\ Len(CallsMade("shipper")) = 1

(***************************************************************************)
(* C38: during Start a leftover TSDB file that fails to load is counted as *)
(* a loading failure and is not passed to shipper.AddIndex: only files     *)
(* that loaded are added to the shipper.                                   *)
(***************************************************************************)
C38_FailedLoadsAreNotAdded ==
    last.op = "Start"
    => \A k \in 1..Len(CallsMade("shipper")) : CallsMade("shipper")[k].loaded

\* What Start does: every file whose name parses is counted and passed to
\* AddIndex, loaded or not; a failed load is counted as a failure; Start
\* stops only when ReadDir of the directory or AddIndex fails.
C38_EveryParsedFileIsAdded ==
    last.op = "Start"
    => With(CallsMade("shipper"), LAMBDA calls :
         /\ Len(calls) = last.indices
         /\ CallsMade("noop") = <<>>
         /\ last.loadingErrors = Cardinality({k \in 1..Len(calls) : ~calls[k].loaded})
                                 + (IF last.err = "AddIndex" THEN 1 ELSE 0)
         /\ last.err \in {"nil", "ReadDir", "AddIndex"}
         /\ last.err = "ReadDir" <=> last.readDirFails
         /\ (last.err = "nil" /\ ~last.readDirFails)
            => last.indices =
                 Cardinality({<<i, j>> \in (1..2) \X (1..2) :
                     /\ i <= Len(last.files)
                     /\ last.files[i].isDir /\ last.files[i].inRange
                     /\ last.files[i].readable
                     /\ j <= Len(last.files[i].tsdbs)
                     /\ last.files[i].tsdbs[j].parses}))

(***************************************************************************)
(* The bloom gateway querier's grouping of chunk refs by fingerprint       *)
(* (pkg/bloomgateway, groupChunkRefs).  sort.Slice is not stable: it may   *)
(* leave refs of equal fingerprint in any order, so the sorted slice is    *)
(* any permutation of the input that is ordered by fingerprint.            *)
(***************************************************************************)
convertToShortRef(ref) ==
    [From |-> ref.From, Through |-> ref.Through, Checksum |-> ref.Checksum]

sortSlice(chunkRefs) ==
    {[i \in 1..Len(chunkRefs) |-> chunkRefs[p[i]]] :
        p \in {q \in [1..Len(chunkRefs) -> 1..Len(chunkRefs)] :
                  /\ \A i, j \in 1..Len(chunkRefs) : q[i] = q[j] => i = j
                  /\ \A i \in 1..Len(chunkRefs) - 1 :
                        ~(chunkRefs[q[i + 1]].Fingerprint < chunkRefs[q[i]].Fingerprint)}}

\* the loop of groupChunkRefs over chunkRefs[i..]
RECURSIVE groupLoop(_, _, _)
groupLoop(chunkRefs, grouped, i) ==
    IF i > Len(chunkRefs) THEN grouped
    ELSE With(chunkRefs[i], LAMBDA chunkRef :
         With(Len(grouped), LAMBDA idx :
             IF idx = 0 \/ grouped[idx].Fingerprint < chunkRef.Fingerprint
             THEN groupLoop(chunkRefs,
                            Append(grouped, [Fingerprint |-> chunkRef.Fingerprint,
                                             Tenant |-> chunkRef.UserID,
                                             Refs |-> <<convertToShortRef(chunkRef)>>]),
                            i + 1)
             ELSE groupLoop(chunkRefs,
                            [grouped EXCEPT ![idx].Refs =
                                 Append(@, convertToShortRef(chunkRef))],
                            i + 1)))

\* groupChunkRefs without its sort.Slice
groupChunkRefsUnsorted(chunkRefs, grouped) ==
    {[chunkRefs |-> chunkRefs, grouped |-> groupLoop(chunkRefs, grouped, 1)]}

\* The results groupChunkRefs can give: the caller's slice as it was sorted
\* in place, and the groups.
groupChunkRefs(chunkRefs, grouped) ==
    {[chunkRefs |-> sorted, grouped |-> groupLoop(sorted, grouped, 1)] :
        sorted \in sortSlice(chunkRefs)}

MaxRefs == 3

ChunkRefs ==
    {[Fingerprint |-> fp, UserID |-> "tenant", From |-> from, Through |-> from + 1,
      Checksum |-> sum] : fp \in 1..3, from \in 0..1, sum \in 7..8}

RECURSIVE ChunkRefLists(_)
ChunkRefLists(n) ==
    IF n = 0 THEN {<<>>}
    ELSE ChunkRefLists(n - 1)
         \cup {Append(l, r) : l \in {s \in ChunkRefLists(n - 1) : Len(s) = n - 1},
                              r \in ChunkRefs}

\* the target slice: empty, as the pool hands it out, or holding a group
Targets ==
    {<<>>,
     <<[Fingerprint |-> 2, Tenant |-> "tenant",
        Refs |-> <<[From |-> 0, Through |-> 1, Checksum |-> 9]>>]>>}

InitGroup ==
    /\ \E chunkRefs \in ChunkRefLists(MaxRefs) :
         \E grouped \in Targets :
            /\ c = [chunkRefs |-> chunkRefs, grouped |-> grouped]
            /\ last = [op |-> "New", chunkRefs |-> chunkRefs, grouped |-> grouped]
    /\ prev = NoChunk
    /\ admit = TRUE
    /\ appended = 0
    /\ rebuilt = FALSE
    /\ inFlight = <<>>
    /\ ckpt = <<>>

\* grouped = groupChunkRefs(chunkRefs, grouped), on the slices of the caller
DoGroupChunkRefs ==
    /\ last.op = "New"
    /\ \E r \in groupChunkRefs(c.chunkRefs, c.grouped) :
         c' = r
    /\ last' = [last EXCEPT !.op = "groupChunkRefs"]
    /\ UNCHANGED <<prev, admit, appended, rebuilt, inFlight, ckpt>>

NextGroup ==
    \/ DoGroupChunkRefs

SpecGroup == InitGroup /\ [][NextGroup]_vars

\* how often x is in the sequence s
CountIn(s, x) == Cardinality({i \in 1..Len(s) : s[i] = x})

ShortRefs == {convertToShortRef(r) : r \in ChunkRefs}

(***************************************************************************)
(* C39: given an empty target slice, groupChunkRefs returns one group per  *)
(* distinct fingerprint of the input, in strictly increasing order of      *)
(* fingerprint; every input ref is once, as a short ref (From, Through,    *)
(* Checksum), in the group of its fingerprint; and the groups hold as many *)
(* refs as the input.                                                      *)
(***************************************************************************)
C39_GroupedByFingerprint ==
    (last.op = "groupChunkRefs" /\ last.grouped = <<>>)
    => /\ {c.grouped[g].Fingerprint : g \in 1..Len(c.grouped)}
            = {last.chunkRefs[i].Fingerprint : i \in 1..Len(last.chunkRefs)}
       /\ \A g \in 1..Len(c.grouped) - 1 :
             c.grouped[g].Fingerprint < c.grouped[g + 1].Fingerprint
       /\ \A g \in 1..Len(c.grouped) :
             \A s \in ShortRefs :
                CountIn(c.grouped[g].Refs, s)
                  = Cardinality({i \in 1..Len(last.chunkRefs) :
                        /\ last.chunkRefs[i].Fingerprint = c.grouped[g].Fingerprint
                        /\ convertToShortRef(last.chunkRefs[i]) = s})
       /\ \A g \in 1..Len(c.grouped) :
             \A k \in 1..Len(c.grouped[g].Refs) :
                DOMAIN c.grouped[g].Refs[k] = {"From", "Through", "Checksum"}
       /\ SumLen([g \in 1..Len(c.grouped) |-> c.grouped[g].Refs]) = Len(last.chunkRefs)

C39_UnsortedInputWithEqualRefs ==
    \* the input was out of order, held two fingerprints, one of them twice
    \* with the same bounds and checksum, and was grouped into two groups
    /\ last.op = "groupChunkRefs"
    /\ last.grouped = <<>>
    /\ Len(last.chunkRefs) = 3
    /\ last.chunkRefs[1].Fingerprint > last.chunkRefs[2].Fingerprint
    /\ last.chunkRefs[3] = last.chunkRefs[1]
    /\ Len(c.grouped) = 2
    /\ Len(c.grouped[2].Refs) = 2
    /\ c.chunkRefs # last.chunkRefs

(***************************************************************************)
(* The operator's mutate functions (manifests, MutateFuncFor).  A          *)
(* map[string]string is a function on LabelKeys with 0 for a key that is   *)
(* not in the map; a string is empty as "".  mergo.Merge with WithOverride *)
(* writes a value of src over dst when the value of src is not empty, and  *)
(* leaves dst alone where src is empty; maps are merged key by key.        *)
(***************************************************************************)
LabelKeys == {"a", "b"}

NoLabels == [k \in LabelKeys |-> 0]

mergeMap(dst, src) == [k \in LabelKeys |-> IF src[k] # 0 THEN src[k] ELSE dst[k]]

mergeString(dst, src) == IF src = "" THEN dst ELSE src

\* mergeWithOverride(&dst, src) on two PodTemplateSpec
mergeTemplate(dst, src) ==
    [Labels |-> mergeMap(dst.Labels, src.Labels),
     Image |-> mergeString(dst.Image, src.Image)]

\* mergeWithOverride(dst, src) on two *LabelSelector: mergo returns an error,
\* which is logged, when a pointer is nil
mergeSelector(dst, src) ==
    IF dst.nil \/ src.nil THEN dst
    ELSE [dst EXCEPT !.MatchLabels = mergeMap(@, src.MatchLabels)]

mutateConfigMap(existing, desired) ==
    [existing EXCEPT !.BinaryData = desired.BinaryData]

mutateService(existing, desired) ==
    [existing EXCEPT !.Spec.Ports = desired.Spec.Ports,
                     !.Spec.Selector.MatchLabels = mergeMap(@, desired.Spec.Selector.MatchLabels)]

mutateDeployment(existing, desired) ==
    With(IF existing.CreationTimestamp = 0
         THEN [existing EXCEPT !.Spec.Selector = mergeSelector(@, desired.Spec.Selector)]
         ELSE existing, LAMBDA e :
        [obj |-> [e EXCEPT !.Spec.Replicas = desired.Spec.Replicas,
                           !.Spec.Template = mergeTemplate(@, desired.Spec.Template),
                           !.Spec.Strategy = mergeString(@, desired.Spec.Strategy)],
         err |-> "nil"])

\* the loop over existing.Spec.VolumeClaimTemplates[i..]; desired's slice is
\* indexed with i, which panics when it is the shorter one
RECURSIVE mutateVolumeClaimTemplates(_, _, _)
mutateVolumeClaimTemplates(existing, desired, i) ==
    IF i > Len(existing.Spec.VolumeClaimTemplates) THEN [obj |-> existing, err |-> "nil"]
    ELSE IF i > Len(desired.Spec.VolumeClaimTemplates)
         THEN [obj |-> existing, err |-> "panic: index out of range"]
    ELSE mutateVolumeClaimTemplates(
             [existing EXCEPT !.Spec.VolumeClaimTemplates[i] =
                                  desired.Spec.VolumeClaimTemplates[i]],
             desired, i + 1)

mutateStatefulSetSetsSelector(existing, desired) ==
    mutateVolumeClaimTemplates(
        [existing EXCEPT !.Spec.Selector = desired.Spec.Selector,
                         !.Spec.PodManagementPolicy = desired.Spec.PodManagementPolicy,
                         !.Spec.Replicas = desired.Spec.Replicas,
                         !.Spec.Template = mergeTemplate(@, desired.Spec.Template)],
        desired, 1)

mutateStatefulSet(existing, desired) ==
    mutateVolumeClaimTemplates(
        [existing EXCEPT !.Spec.Selector = IF existing.CreationTimestamp = 0
                                           THEN desired.Spec.Selector ELSE @,
                         !.Spec.PodManagementPolicy = desired.Spec.PodManagementPolicy,
                         !.Spec.Replicas = desired.Spec.Replicas,
                         !.Spec.Template = mergeTemplate(@, desired.Spec.Template)],
        desired, 1)

mutateServiceMonitor(existing, desired) == existing

\* The function MutateFuncFor(existing, desired) returns, called: the
\* existing object as it is left, and the error.
MutateFuncFor(existing, desired) ==
    With([existing EXCEPT !.Annotations = mergeMap(@, desired.Annotations),
                          !.Labels = mergeMap(@, desired.Labels)], LAMBDA e :
        CASE e.kind = "ConfigMap" -> [obj |-> mutateConfigMap(e, desired), err |-> "nil"]
          [] e.kind = "Service" -> [obj |-> mutateService(e, desired), err |-> "nil"]
          [] e.kind = "Deployment" -> mutateDeployment(e, desired)
          [] e.kind = "StatefulSet" -> mutateStatefulSet(e, desired)
          [] e.kind = "ServiceMonitor" ->
                [obj |-> mutateServiceMonitor(e, desired), err |-> "nil"]
          [] OTHER -> [obj |-> e, err |-> "missing mutate implementation for resource type"])

(***************************************************************************)
(* The mutate lane: an existing object, new or already created, and the    *)
(* desired object of the same type; the mutate function is called once.    *)
(***************************************************************************)
Kinds == {"ConfigMap", "Service", "Deployment", "StatefulSet", "ServiceMonitor", "Secret"}

Workloads == {"Deployment", "StatefulSet"}

LabelMaps == {NoLabels, [NoLabels EXCEPT !["a"] = 1], [NoLabels EXCEPT !["a"] = 2],
              [NoLabels EXCEPT !["b"] = 1]}

Selectors == {[nil |-> TRUE, MatchLabels |-> NoLabels]}
             \cup {[nil |-> FALSE, MatchLabels |-> l] : l \in LabelMaps \ {NoLabels}}

Templates == {[Labels |-> l, Image |-> i] : l \in LabelMaps \ {[NoLabels EXCEPT !["a"] = 2]},
                                            i \in {"", "loki:1", "loki:2"}}

ClaimTemplates(n) == {<<>>, <<n>>, <<n, n>>}

Objects(kind, n) ==
    IF kind \in Workloads
    THEN {[kind |-> kind, CreationTimestamp |-> t, Labels |-> NoLabels,
           Annotations |-> NoLabels, BinaryData |-> n,
           Spec |-> [Selector |-> s, Replicas |-> r, Template |-> tp,
                     Strategy |-> IF kind = "Deployment" THEN st ELSE "",
                     PodManagementPolicy |-> n, Ports |-> n,
                     VolumeClaimTemplates |-> IF kind = "StatefulSet" THEN v ELSE <<>>]] :
             t \in 0..1, s \in Selectors, r \in 1..2, tp \in Templates,
             st \in {"", "Recreate"}, v \in ClaimTemplates(n)}
    ELSE {[kind |-> kind, CreationTimestamp |-> t, Labels |-> l,
           Annotations |-> l, BinaryData |-> n,
           Spec |-> [Selector |-> [nil |-> FALSE, MatchLabels |-> l], Replicas |-> 1,
                     Template |-> [Labels |-> NoLabels, Image |-> ""],
                     Strategy |-> "", PodManagementPolicy |-> n, Ports |-> n,
                     VolumeClaimTemplates |-> <<>>]] :
             t \in 0..1, l \in LabelMaps}

InitMutate ==
    /\ \E kind \in Kinds :
         /\ c \in Objects(kind, "existing")
         /\ inFlight \in {d \in Objects(kind, "desired") : d.CreationTimestamp = 0}
    /\ prev = c
    /\ last = [op |-> "New", err |-> "nil"]
    /\ admit = TRUE
    /\ appended = 0
    /\ rebuilt = FALSE
    /\ ckpt = <<>>

\* MutateFuncFor(existing, desired)()
DoMutate ==
    /\ last.op = "New"
    /\ With(MutateFuncFor(c, inFlight), LAMBDA r :
          /\ c' = r.obj
          /\ last' = [op |-> "Mutate", err |-> r.err])
    /\ UNCHANGED <<prev, admit, appended, rebuilt, inFlight, ckpt>>

NextMutate ==
    \/ DoMutate

SpecMutate == InitMutate /\ [][NextMutate]_vars

(***************************************************************************)
(* C40: the mutate function never changes the selector of a Deployment or  *)
(* StatefulSet that was already created (CreationTimestamp is not zero):   *)
(* existing.Spec.Selector is the same before and after the call, while     *)
(* replicas and template are taken from the desired object.                *)
(***************************************************************************)
C40_SelectorKeptRestFromDesired ==
    (last.op = "Mutate" /\ c.kind \in Workloads /\ prev.CreationTimestamp # 0)
    => /\ c.Spec.Selector = prev.Spec.Selector
       /\ c.Spec.Replicas = inFlight.Spec.Replicas
       /\ c.Spec.Template = inFlight.Spec.Template

(***************************************************************************)
(* C40 as it holds: the selector of a created Deployment or StatefulSet is *)
(* the same before and after the call; replicas are those of the desired   *)
(* object; the template is the desired template merged over the existing   *)
(* one: what is set in the desired template is taken from it, and what the *)
(* desired template leaves empty stays as it was.                          *)
(***************************************************************************)
C40_SelectorKeptTemplateMerged ==
    (last.op = "Mutate" /\ c.kind \in Workloads /\ prev.CreationTimestamp # 0)
    => /\ c.Spec.Selector = prev.Spec.Selector
       /\ c.Spec.Replicas = inFlight.Spec.Replicas
       /\ \A k \in LabelKeys :
             c.Spec.Template.Labels[k] =
                IF inFlight.Spec.Template.Labels[k] # 0
                THEN inFlight.Spec.Template.Labels[k]
                ELSE prev.Spec.Template.Labels[k]
       /\ c.Spec.Template.Image =
             IF inFlight.Spec.Template.Image # "" THEN inFlight.Spec.Template.Image
             ELSE prev.Spec.Template.Image

C40_CreatedWorkloadMutated ==
    \* a created StatefulSet whose selector differs from the desired one
    \* was mutated: replicas and image changed, a label was kept
    /\ last.op = "Mutate"
    /\ last.err = "nil"
    /\ c.kind = "StatefulSet"
    /\ prev.CreationTimestamp # 0
    /\ ~prev.Spec.Selector.nil
    /\ ~inFlight.Spec.Selector.nil
    /\ prev.Spec.Selector # inFlight.Spec.Selector
    /\ c.Spec.Replicas # prev.Spec.Replicas
    /\ c.Spec.Template.Image # prev.Spec.Template.Image
    /\ c.Spec.Template # inFlight.Spec.Template
    /\ Len(c.Spec.VolumeClaimTemplates) = 2

====
